---- MODULE Spec2Model ----
(***************************************************************************)
(* Model of the newbro mining planner of the EVE University Wiki MCP       *)
(* server (src/eve_wiki_mcp_server_docker.py): input validation, the       *)
(* candidate ranking, the summary / page phases of                         *)
(* gather_mining_wiki_context and the rendering of the plan.               *)
(*                                                                         *)
(* Strings whose characters the code inspects (titles, descriptions,       *)
(* queries, keywords, free text) are sequences of one-character strings.   *)
(* Fixed literals that the code only emits are kept as one token, so a     *)
(* rendered line or a url is a sequence of tokens.                         *)
(***************************************************************************)
EXTENDS Integers, Sequences, FiniteSets, TLC

(***************************************************************************)
(* Characters: printable ASCII in code point order (Ascii[i] has code      *)
(* point 31 + i), which is the order Python compares strings by.  The      *)
(* double quote (34), the backslash (92) and the backtick (96) are written *)
(* as the tokens "dquote", "bslash" and "btick".                           *)
(***************************************************************************)
Ascii ==
    <<" ","!","dquote","#","$","%","&","'","(",")","*","+",",","-",".","/",
      "0","1","2","3","4","5","6","7","8","9",":",";","<","=",">","?","@",
      "A","B","C","D","E","F","G","H","I","J","K","L","M","N","O","P","Q",
      "R","S","T","U","V","W","X","Y","Z","[","bslash","]","^","_","btick",
      "a","b","c","d","e","f","g","h","i","j","k","l","m","n","o","p","q",
      "r","s","t","u","v","w","x","y","z","{","|","}","~">>

CodePointTable ==
    [c \in {Ascii[i] : i \in 1..Len(Ascii)} |->
        31 + (CHOOSE i \in 1..Len(Ascii) : Ascii[i] = c)]

CodePoint(c) == CodePointTable[c]

\* str.lower() on one character: A-Z (65..90) map to a-z (97..122).
LowerChar(c) ==
    IF CodePoint(c) >= 65 /\ CodePoint(c) <= 90
    THEN Ascii[CodePoint(c) - 31 + 32]
    ELSE c

\* str.lower()
Lower(s) == [i \in 1..Len(s) |-> LowerChar(s[i])]

\* Python's < on strings: lexicographic by code point, a proper prefix is less.
RECURSIVE StrLess(_, _)
StrLess(a, b) ==
    IF Len(b) = 0 THEN FALSE
    ELSE IF Len(a) = 0 THEN TRUE
    ELSE IF a[1] # b[1] THEN CodePoint(a[1]) < CodePoint(b[1])
    ELSE StrLess(Tail(a), Tail(b))

\* Python's `needle in hay` on strings.
Contains(needle, hay) ==
    \E i \in 0..(Len(hay) - Len(needle)) :
        SubSeq(hay, i + 1, i + Len(needle)) = needle

IsSpace(c) == c = " "

\* str.strip(): drop leading and trailing whitespace.
RECURSIVE LStrip(_)
LStrip(s) == IF Len(s) > 0 /\ IsSpace(s[1]) THEN LStrip(Tail(s)) ELSE s

RECURSIVE RStrip(_)
RStrip(s) ==
    IF Len(s) > 0 /\ IsSpace(s[Len(s)]) THEN RStrip(SubSeq(s, 1, Len(s) - 1)) ELSE s

Strip(s) == RStrip(LStrip(s))

\* str.split(): the maximal runs of non-whitespace characters, in order.
RECURSIVE SplitFrom(_, _)
SplitFrom(s, cur) ==
    IF Len(s) = 0 THEN (IF Len(cur) = 0 THEN <<>> ELSE <<cur>>)
    ELSE IF IsSpace(s[1])
         THEN (IF Len(cur) = 0 THEN <<>> ELSE <<cur>>) \o SplitFrom(Tail(s), <<>>)
         ELSE SplitFrom(Tail(s), Append(cur, s[1]))

Split(s) == SplitFrom(s, <<>>)

\* str.replace(' ', '_')
ReplaceSpaces(s) == [i \in 1..Len(s) |-> IF s[i] = " " THEN "_" ELSE s[i]]

HexDigits == <<"0","1","2","3","4","5","6","7","8","9","A","B","C","D","E","F">>

\* urllib.parse.quote(s, safe=''): letters, digits and _ . - ~ are kept, every
\* other character becomes %XX with XX its code point in upper-case hex.
QuoteChar(c) ==
    LET cp == CodePoint(c) IN
    IF \/ (cp >= 48 /\ cp <= 57)
       \/ (cp >= 65 /\ cp <= 90)
       \/ (cp >= 97 /\ cp <= 122)
       \/ c \in {"_", ".", "-", "~"}
    THEN <<c>>
    ELSE <<"%", HexDigits[(cp \div 16) + 1], HexDigits[(cp % 16) + 1]>>

RECURSIVE Quote(_)
Quote(s) == IF Len(s) = 0 THEN <<>> ELSE QuoteChar(s[1]) \o Quote(Tail(s))

WIKI_BASE == "https://wiki.eveuniversity.org/wiki/"

build_wiki_url(title) == <<WIKI_BASE>> \o Quote(ReplaceSpaces(title))

(***************************************************************************)
(* Program constants of the planner.                                       *)
(***************************************************************************)
MINING_SEED_QUERIES ==
    << <<"E","V","E"," ","U","n","i","v","e","r","s","i","t","y"," ","m","i","n","i","n","g"," ","g","u","i","d","e">>,
       <<"V","e","n","t","u","r","e">>,
       <<"M","i","n","i","n","g"," ","f","r","i","g","a","t","e","s">>,
       <<"C","a","r","e","e","r"," ","A","g","e","n","t","s"," ","m","i","n","i","n","g">>,
       <<"H","i","g","h","s","e","c"," ","m","i","n","i","n","g"," ","s","a","f","e","t","y">>,
       <<"O","r","e"," ","a","n","d"," ","m","i","n","i","n","g"," ","m","e","c","h","a","n","i","c","s">>,
       <<"F","i","t","t","i","n","g"," ","s","h","i","p","s"," ","f","o","r"," ","m","i","n","i","n","g">> >>

MINING_RELEVANCE_KEYWORDS ==
    << [keyword |-> <<"m","i","n","i","n","g">>, weight |-> 8],
       [keyword |-> <<"v","e","n","t","u","r","e">>, weight |-> 8],
       [keyword |-> <<"o","r","e">>, weight |-> 5],
       [keyword |-> <<"a","s","t","e","r","o","i","d">>, weight |-> 4],
       [keyword |-> <<"h","i","g","h","s","e","c">>, weight |-> 4],
       [keyword |-> <<"s","a","f","e","t","y">>, weight |-> 4],
       [keyword |-> <<"c","a","r","e","e","r">>, weight |-> 3],
       [keyword |-> <<"a","g","e","n","t">>, weight |-> 3],
       [keyword |-> <<"f","i","t">>, weight |-> 3],
       [keyword |-> <<"f","i","t","t","i","n","g">>, weight |-> 3],
       [keyword |-> <<"b","a","r","g","e">>, weight |-> 2],
       [keyword |-> <<"a","l","p","h","a">>, weight |-> 2] >>

MINING_PLAN_SECTION_ORDER ==
    << "Profile + Assumptions",
       "Day 1 Plan",
       "Week 1 Plan",
       "Shopping List",
       "Skill Priorities (Alpha-safe)",
       "Safety and Loss Prevention",
       "If Things Go Wrong",
       "Next Session Check-in Questions",
       "Sources" >>

\* in the order of the dict literal, which is the order the code iterates in
SECTION_KEYWORDS ==
    << [section |-> "Profile + Assumptions",
         keywords |-> <<<<"m","i","n","i","n","g">>, <<"c","a","r","e","e","r">>, <<"v","e","n","t","u","r","e">>>>],
       [section |-> "Day 1 Plan",
         keywords |-> <<<<"c","a","r","e","e","r">>, <<"v","e","n","t","u","r","e">>, <<"m","i","n","i","n","g">>>>],
       [section |-> "Week 1 Plan",
         keywords |-> <<<<"m","i","n","i","n","g">>, <<"o","r","e">>, <<"v","e","n","t","u","r","e">>>>],
       [section |-> "Shopping List",
         keywords |-> <<<<"v","e","n","t","u","r","e">>, <<"f","i","t","t","i","n","g">>, <<"m","i","n","i","n","g">>>>],
       [section |-> "Skill Priorities (Alpha-safe)",
         keywords |-> <<<<"s","k","i","l","l","s">>, <<"m","i","n","i","n","g">>, <<"a","l","p","h","a">>>>],
       [section |-> "Safety and Loss Prevention",
         keywords |-> <<<<"s","a","f","e","t","y">>, <<"h","i","g","h","s","e","c">>, <<"g","a","n","k">>>>],
       [section |-> "If Things Go Wrong",
         keywords |-> <<<<"s","a","f","e","t","y">>, <<"v","e","n","t","u","r","e">>, <<"m","i","n","i","n","g">>>>],
       [section |-> "Next Session Check-in Questions",
         keywords |-> <<<<"m","i","n","i","n","g">>, <<"c","a","r","e","e","r">>>>] >>


\* score_mining_candidate: the keyword weights found in "title description"
\* lowercased, plus 1 for every whitespace-delimited token of the lowercased
\* query found in it.
RECURSIVE SumWeights(_, _)
SumWeights(kws, text) ==
    IF Len(kws) = 0 THEN 0
    ELSE (IF Contains(kws[1].keyword, text) THEN kws[1].weight ELSE 0)
         + SumWeights(Tail(kws), text)

RECURSIVE CountTokens(_, _)
CountTokens(tokens, text) ==
    IF Len(tokens) = 0 THEN 0
    ELSE (IF Contains(tokens[1], text) THEN 1 ELSE 0)
         + CountTokens(Tail(tokens), text)

score_mining_candidate(title, description, query) ==
    LET text == Lower(title \o <<" ">> \o description) IN
    SumWeights(MINING_RELEVANCE_KEYWORDS, text)
    + CountTokens(Split(Lower(query)), text)

(***************************************************************************)
(* CandidateRanker: merge of search observations and ranking               *)
(* (gather_mining_wiki_context, lines 294-348).                            *)
(*                                                                         *)
(* The dict `candidates` is the sequence of its values in insertion order; *)
(* each value carries its dict key.                                        *)
(***************************************************************************)
HasKey(cands, key) == \E i \in 1..Len(cands) : cands[i].key = key

KeyIndex(cands, key) == CHOOSE i \in 1..Len(cands) : cands[i].key = key

\* The key without the lower-casing.
CandidateKey_Exact(title) == title

\* key = title.lower()
CandidateKey(title) == Lower(title)

\* The overwrite on an equal score as well.
ReplacesEarlier_OnTie(score, old_score) == score >= old_score

\* elif score > candidates[key]["score"]
ReplacesEarlier(score, old_score) == score > old_score

\* One iteration of `for idx, title in enumerate(titles)`, lines 322-332.
MergeObservation(cands, obs) ==
    LET key == CandidateKey(obs.title) IN
    IF ~HasKey(cands, key)
    THEN Append(cands, [key |-> key, title |-> obs.title,
                        description |-> obs.description,
                        url |-> obs.url, score |-> obs.score])
    ELSE LET i == KeyIndex(cands, key) IN
         IF ReplacesEarlier(obs.score, cands[i].score)
         THEN [cands EXCEPT ![i].score = obs.score,
                            ![i].description = obs.description,
                            ![i].url = obs.url]
         ELSE cands

\* desc, url and score of the idx-th title of an opensearch answer, lines 317-319.
ObservationAt(answer, idx, query) ==
    LET title == answer.titles[idx]
        desc == IF idx <= Len(answer.descriptions)
                THEN answer.descriptions[idx] ELSE <<>>
        url == IF idx <= Len(answer.urls) /\ Len(answer.urls[idx]) > 0
               THEN answer.urls[idx] ELSE build_wiki_url(title)
    IN [title |-> title, description |-> desc, url |-> url,
        score |-> score_mining_candidate(title, desc, query)]

\* The observations of one answer, in the order of its titles.
Observations(answer, query) ==
    [idx \in 1..Len(answer.titles) |-> ObservationAt(answer, idx, query)]

RECURSIVE MergeAll(_, _)
MergeAll(cands, obs) ==
    IF Len(obs) = 0 THEN cands
    ELSE MergeAll(MergeObservation(cands, obs[1]), Tail(obs))

\* The sort key without the title.
SortKeyLess_ScoreOnly(a, b) == a.score < b.score

\* Python's < on the sort key (item["score"], item["title"].lower()).
SortKeyLess(a, b) ==
    \/ a.score < b.score
    \/ a.score = b.score /\ StrLess(Lower(a.title), Lower(b.title))

\* sorted(..., reverse=True) is stable: an element goes after every element
\* whose key is not less than its own.
RECURSIVE InsertReverse(_, _)
InsertReverse(sorted, c) ==
    IF Len(sorted) = 0 THEN <<c>>
    ELSE IF SortKeyLess(sorted[1], c) THEN <<c>> \o sorted
    ELSE <<sorted[1]>> \o InsertReverse(Tail(sorted), c)

RECURSIVE SortedReverse(_)
SortedReverse(values) ==
    IF Len(values) = 0 THEN <<>>
    ELSE InsertReverse(SortedReverse(SubSeq(values, 1, Len(values) - 1)),
                       values[Len(values)])

Str_Mining == <<"M","i","n","i","n","g">>
Str_GeneralMiningOverview == <<"G","e","n","e","r","a","l"," ","m","i","n","i","n","g"," ","o","v","e","r","v","i","e","w">>

\* The synthesized candidate of lines 341-348 (it is not a dict value and
\* carries no key in the code; the key field is that of its title).
DefaultCandidate ==
    [key |-> Lower(Str_Mining), title |-> Str_Mining,
     description |-> Str_GeneralMiningOverview,
     url |-> build_wiki_url(Str_Mining), score |-> 1]

\* The default candidate added to every ranking.
RankedOrDefault_Always(sorted) == Append(sorted, DefaultCandidate)

\* if not ranked_candidates: ranked_candidates = [default]
RankedOrDefault(sorted) ==
    IF Len(sorted) = 0 THEN <<DefaultCandidate>> ELSE sorted

\* lines 334-348
RankCandidates(cands) == RankedOrDefault(SortedReverse(cands))

(***************************************************************************)
(* Tool arguments and their validation (normalize_mining_plan_inputs).     *)
(*                                                                         *)
(* A JSON value is a record tagged by its Python type:                     *)
(*   [t |-> "int", hi, lo]   the integer hi * 10^9 + lo, 0 <= lo < 10^9    *)
(*   [t |-> "float", h]      the float h / 100                             *)
(*   [t |-> "float", nan]    the float NaN (json.loads reads the token NaN) *)
(*   [t |-> "bool", b], [t |-> "str", s], [t |-> "none"], [t |-> "list"]   *)
(*   [t |-> "dict", d]       d a function from keys to values              *)
(***************************************************************************)
Billion == 1000 * 1000 * 1000

IntVal(n) == [t |-> "int", hi |-> n \div Billion, lo |-> n % Billion]
BigIntVal(hi, lo) == [t |-> "int", hi |-> hi, lo |-> lo]
FloatVal(h) == [t |-> "float", h |-> h]
StrVal(s) == [t |-> "str", s |-> s]
BoolVal(b) == [t |-> "bool", b |-> b]
NoneVal == [t |-> "none"]
NanVal == [t |-> "float", nan |-> TRUE]

IsNaN(v) == v.t = "float" /\ "nan" \in DOMAIN v

\* A number as <<billions, units, hundredths>>, ordered lexicographically.
NumKey(v) ==
    IF v.t = "int" THEN <<v.hi, v.lo, 0>>
    ELSE <<(v.h \div 100) \div Billion, (v.h \div 100) % Billion, v.h % 100>>

\* a < b; every comparison with NaN is False.
NumLess(a, b) ==
    IF IsNaN(a) \/ IsNaN(b) THEN FALSE
    ELSE
    LET x == NumKey(a)
        y == NumKey(b)
    IN \/ x[1] < y[1]
       \/ x[1] = y[1] /\ x[2] < y[2]
       \/ x[1] = y[1] /\ x[2] = y[2] /\ x[3] < y[3]

\* Decimal digits of a natural number, zero-padded to `width`.
RECURSIVE Digits(_, _)
Digits(n, width) ==
    IF width <= 1 /\ n < 10 THEN <<Ascii[17 + n]>>
    ELSE Digits(n \div 10, width - 1) \o <<Ascii[17 + (n % 10)]>>

\* str() of a non-negative int.
IntStr(v) ==
    IF v.hi = 0 THEN Digits(v.lo, 1) ELSE Digits(v.hi, 1) \o Digits(v.lo, 9)

\* str() of a float with at most two decimals: "0.5", "8.0", "0.49".
FloatStr(v) ==
    Digits(v.h \div 100, 1) \o <<".">> \o
    (IF v.h % 10 = 0 THEN Digits((v.h % 100) \div 10, 1) ELSE Digits(v.h % 100, 2))

\* f"{x}" of a validation bound; int(x) of an int bound is the bound.
NumStr(v) == IF v.t = "int" THEN IntStr(v) ELSE FloatStr(v)

Invalid(msg) == [valid |-> FALSE, msg |-> msg]
Valid == [valid |-> TRUE, msg |-> <<>>]

validate_numeric_input(value, min_value, max_value, field_name, integer_only) ==
    IF integer_only /\ value.t # "int"
    THEN Invalid(<<field_name, " must be an integer between ">> \o NumStr(min_value)
                 \o <<" and ">> \o NumStr(max_value))
    ELSE IF ~integer_only /\ value.t \notin {"int", "float"}
    THEN Invalid(<<field_name, " must be a number between ">> \o NumStr(min_value)
                 \o <<" and ">> \o NumStr(max_value))
    ELSE IF NumLess(value, min_value) \/ NumLess(max_value, value)
    THEN Invalid(<<field_name, " must be between ">> \o NumStr(min_value)
                 \o <<" and ">> \o NumStr(max_value))
    ELSE Valid

\* ', '.join(allowed_values)
RECURSIVE JoinComma(_)
JoinComma(values) ==
    IF Len(values) = 0 THEN <<>>
    ELSE IF Len(values) = 1 THEN values[1]
    ELSE values[1] \o <<", ">> \o JoinComma(Tail(values))

validate_enum_input(value, allowed_values, field_name) ==
    IF value.t # "str"
    THEN Invalid(<<field_name, " must be one of: ">> \o JoinComma(allowed_values))
    ELSE IF \A i \in 1..Len(allowed_values) : allowed_values[i] # value.s
    THEN Invalid(<<field_name, " must be one of: ">> \o JoinComma(allowed_values))
    ELSE Valid

MINING_PLAN_MAX_FREEFORM_LENGTH == 1200

\* The NUL character; it has no entry in Ascii.
Nul == "nul"

validate_optional_text_input(value, max_length, field_name) ==
    IF value.t # "str"
    THEN Invalid(<<field_name, " must be a string">>)
    ELSE IF Len(value.s) > max_length
    THEN Invalid(<<field_name, " exceeds maximum length of ">>
                 \o Digits(max_length, 1))
    ELSE IF \E i \in 1..Len(value.s) : value.s[i] = Nul
    THEN Invalid(<<field_name, " contains invalid characters">>)
    ELSE Valid

Str_brand_new == <<"b","r","a","n","d","_","n","e","w">>
Str_conservative == <<"c","o","n","s","e","r","v","a","t","i","v","e">>

ProfileFields ==
    {"hours_per_session", "sessions_per_week", "starting_isk", "experience_level",
     "risk_preference", "current_assets", "recent_outcome", "questions"}

Defaults ==
    [hours_per_session |-> FloatVal(150),
     sessions_per_week |-> IntVal(4),
     starting_isk |-> IntVal(0),
     experience_level |-> StrVal(Str_brand_new),
     risk_preference |-> StrVal(Str_conservative),
     current_assets |-> StrVal(<<>>),
     recent_outcome |-> StrVal(<<>>),
     questions |-> StrVal(<<>>)]

\* normalized = defaults.copy(); normalized.update(arguments)
UpdateDefaults(d) ==
    [f \in ProfileFields \cup DOMAIN d |-> IF f \in DOMAIN d THEN d[f] ELSE Defaults[f]]

\* The last failing check is the one reported.
RECURSIVE FirstInvalid_Last(_)
FirstInvalid_Last(checks) ==
    IF Len(checks) = 0 THEN Valid
    ELSE IF ~checks[Len(checks)].valid THEN checks[Len(checks)]
    ELSE FirstInvalid_Last(SubSeq(checks, 1, Len(checks) - 1))

\* The first failing check of a sequence of validation results, or Valid.
RECURSIVE FirstInvalid(_)
FirstInvalid(checks) ==
    IF Len(checks) = 0 THEN Valid
    ELSE IF ~checks[1].valid THEN checks[1]
    ELSE FirstInvalid(Tail(checks))

\* The checks of lines 238-273, in the order the code makes them.
FieldChecks(n) ==
    << validate_numeric_input(n.hours_per_session, FloatVal(50), FloatVal(800),
                              "hours_per_session", FALSE),
       validate_numeric_input(n.sessions_per_week, IntVal(1), IntVal(14),
                              "sessions_per_week", TRUE),
       validate_numeric_input(n.starting_isk, IntVal(0), BigIntVal(10, 0),
                              "starting_isk", TRUE),
       validate_enum_input(n.experience_level, <<Str_brand_new>>, "experience_level"),
       validate_enum_input(n.risk_preference, <<Str_conservative>>, "risk_preference"),
       validate_optional_text_input(n.current_assets,
                                    MINING_PLAN_MAX_FREEFORM_LENGTH, "current_assets"),
       validate_optional_text_input(n.recent_outcome,
                                    MINING_PLAN_MAX_FREEFORM_LENGTH, "recent_outcome"),
       validate_optional_text_input(n.questions,
                                    MINING_PLAN_MAX_FREEFORM_LENGTH, "questions") >>

\* Returns [normalized, msg]: (normalized, "") or (None, error_msg).
normalize_mining_plan_inputs(arguments) ==
    IF arguments.t \notin {"none", "dict"}
    THEN [normalized |-> NoneVal, msg |-> <<"arguments must be an object">>]
    ELSE LET normalized == UpdateDefaults(IF arguments.t = "none" THEN <<>> ELSE arguments.d)
             check == FirstInvalid(FieldChecks(normalized))
         IN IF check.valid
            THEN [normalized |-> normalized, msg |-> <<>>]
            ELSE [normalized |-> NoneVal, msg |-> check.msg]

(***************************************************************************)
(* The upstream wiki.  fetch_wiki returns an error descriptor, a well      *)
(* formed payload or a payload of another shape; which one is the          *)
(* environment's choice at every call.  The content of a well formed       *)
(* payload comes from the world the run is in:                             *)
(*   "table"  every search, extract and page has one fixed content;        *)
(*   "empty"  every search finds no title;                                 *)
(*   "free"   the first FreeQueries searches answer any of FreeAnswers,    *)
(*            the later ones find no title.                                *)
(***************************************************************************)
WikiStr ==
  [ Ore |-> <<"O","r","e">>,
    Venture |-> <<"V","e","n","t","u","r","e">>,
    mining |-> <<"m","i","n","i","n","g">>,
    MiningOverview |-> <<"M","i","n","i","n","g"," ","o","v","e","r","v","i","e","w">>,
    ore |-> <<"o","r","e">>,
    Gas |-> <<"G","a","s">>,
    Ice |-> <<"I","c","e">>,
    Moon |-> <<"M","o","o","n">>,
    Fit |-> <<"F","i","t">>,
    Barge |-> <<"B","a","r","g","e">>,
    Alpha |-> <<"A","l","p","h","a">>,
    Safety |-> <<"S","a","f","e","t","y">>,
    safety |-> <<"s","a","f","e","t","y">>,
    Career |-> <<"C","a","r","e","e","r">>,
    Agent |-> <<"A","g","e","n","t">>,
    Skills |-> <<"S","k","i","l","l","s">>,
    Highsec |-> <<"H","i","g","h","s","e","c">> ]

Answer(titles, descriptions, urls) ==
    [titles |-> titles, descriptions |-> descriptions, urls |-> urls]

NoTitles == Answer(<<>>, <<>>, <<>>)

\* The answers of the table world, one for each seed query:
\*  1  two titles, one description, one url: the second title has neither;
\*  2  a title without description and url;
\*  3  the lower-case spelling of a title, with a description that scores
\*     higher;
\*  5  the lower-case spelling with an empty description and an empty url.
TableSearch ==
    << Answer(<<Str_Mining, WikiStr.Ore>>, <<WikiStr.MiningOverview>>,
              <<build_wiki_url(Str_Mining)>>),
       Answer(<<WikiStr.Venture>>, <<>>, <<>>),
       Answer(<<WikiStr.mining>>, <<WikiStr.ore>>, <<build_wiki_url(Str_Mining)>>),
       NoTitles,
       Answer(<<WikiStr.mining>>, <<<<>>>>, <<<<>>>>),
       Answer(<<WikiStr.Ore>>, <<>>, <<>>),
       NoTitles >>

FreeAnswers == {TableSearch[i] : i \in 1..5}

FreeQueries == 3


\* The wide world: fourteen titles over six searches, one url given twice
\* (Mining and Fit), one title in two spellings (Safety, safety).
WideSearch ==
    << Answer(<<Str_Mining, WikiStr.Ore, WikiStr.Gas, WikiStr.Ice, WikiStr.Moon,
                WikiStr.Fit>>,
              <<WikiStr.MiningOverview>>,
              <<build_wiki_url(Str_Mining), <<>>, <<>>, <<>>, <<>>,
                build_wiki_url(Str_Mining)>>),
       Answer(<<WikiStr.Venture, WikiStr.Barge, WikiStr.Alpha, WikiStr.Safety>>,
              <<>>, <<>>),
       TableSearch[3],
       Answer(<<WikiStr.Career, WikiStr.Agent, WikiStr.Skills>>, <<>>, <<>>),
       Answer(<<WikiStr.Highsec, WikiStr.safety>>, <<>>, <<>>),
       TableSearch[6],
       NoTitles >>

\* The number of calls that may fail in one run of the wide world.
MaxFailures == 2

SearchAnswers(world, i) ==
    IF world = "table" THEN {TableSearch[i]}
    ELSE IF world = "wide" THEN {WideSearch[i]}
    ELSE IF world = "free" /\ i <= FreeQueries THEN FreeAnswers
    ELSE {NoTitles}

(***************************************************************************)
(* Extracts and rendered pages.  The code only strips, measures and cuts   *)
(* them, so such a text is [pre, body, post]: pre whitespace characters,   *)
(* a body that starts and ends with a non-whitespace character, post       *)
(* whitespace characters.  A text of whitespace only has body = 0.         *)
(***************************************************************************)
Text(pre, body, post) == [pre |-> pre, body |-> body, post |-> post]

TextLen(x) == x.pre + x.body + x.post

\* str.strip()
StripText(x) == IF x.body = 0 THEN Text(0, 0, 0) ELSE Text(0, x.body, 0)

Min(a, b) == IF a <= b THEN a ELSE b

\* x[:n]
SliceText(x, n) ==
    LET pre == Min(x.pre, n)
        body == Min(x.body, n - pre)
        post == Min(x.post, n - pre - body)
    IN Text(pre, body, post)

\* A query/extracts payload: has it a page, is the page missing, its extract.
ExtractPayload(has_page, missing, extract) ==
    [has_page |-> has_page, missing |-> missing, extract |-> extract]

\* The table world's extract of a title: a long one for Mining, a short one
\* with surrounding whitespace for Venture, a missing page for Ore, one of
\* 180 characters between whitespace for Safety, no page for any other title.
TableExtract(title) ==
    IF Lower(title) = WikiStr.mining THEN ExtractPayload(TRUE, FALSE, Text(0, 400, 1))
    ELSE IF Lower(title) = Lower(WikiStr.Venture) THEN ExtractPayload(TRUE, FALSE, Text(1, 50, 2))
    ELSE IF Lower(title) = WikiStr.ore THEN ExtractPayload(TRUE, TRUE, Text(0, 0, 0))
    ELSE IF Lower(title) = WikiStr.safety THEN ExtractPayload(TRUE, FALSE, Text(2, 180, 1))
    ELSE ExtractPayload(FALSE, FALSE, Text(0, 0, 0))

\* h.handle(html) of the table world's page of a title: longer than a snippet
\* for Venture, short for the others.
TablePage(title) ==
    IF Lower(title) = Lower(WikiStr.Venture) THEN Text(2, 900, 1) ELSE Text(0, 100, 2)

\* _extract_summary_from_query_response
extract_summary_from_query_response(data) ==
    IF ~data.has_page THEN Text(0, 0, 0)
    ELSE IF data.missing THEN Text(0, 0, 0)
    ELSE IF TextLen(data.extract) = 0 THEN Text(0, 0, 0)
    ELSE StripText(data.extract)

(***************************************************************************)
(* State.                                                                  *)
(***************************************************************************)
VARIABLES
    arguments,          \* the arguments of the generate_newbro_mining_plan call
    wiki,               \* the world the upstream answers from
    pc,                 \* "call", "search", "summary", "page", "done", "raised"
    profile,            \* normalized, once validation passed
    qi,                 \* index of the seed query being searched
    candidates,         \* dict values, in insertion order
    errors,             \* failure tags
    ranked_candidates,
    ci,                 \* index in ranked_candidates of the summary / page loop
    summaries,          \* title -> stripped extract
    page_snippets,      \* title -> snippet
    section_citations,  \* section name -> url
    context,            \* what gather_mining_wiki_context returned
    result,             \* what call_tool returned
    calls,              \* history: every fetch_wiki call issued, with its outcome
    observed,           \* history: every search observation, in arrival order
    feed,               \* the observations of a run of the merge alone
    pending,            \* the indices of feed not delivered yet
    params,             \* the action of a fetch_wiki call looked into
    upstream,           \* how the upstream behaves on that call's request
    response,           \* what that call returned
    attempts,           \* the requests that call sent
    config,             \* AUTH_TOKEN, RATE_LIMIT_REQUESTS, RATE_LIMIT_WINDOW
    now,                \* time.time(), in seconds
    rate_limit_store,   \* client id -> timestamps of the admitted requests
    open_sessions,      \* session id -> "connected" or "initialized"
    admitted,           \* history: client and time of every request let through
    reply,              \* history: the last HTTP request and its answer
    parked              \* the frame of a second call waiting at an await, or None

vars ==
    <<arguments, wiki, pc, profile, qi, candidates, errors, ranked_candidates, ci,
      summaries, page_snippets, section_citations, context, result, calls,
      observed, feed, pending, params, upstream, response, attempts,
      config, now, rate_limit_store, open_sessions, admitted, reply, parked>>

gather_vars ==
    <<candidates, errors, ranked_candidates, ci, summaries, page_snippets,
      section_citations, context>>

order_vars == <<feed, pending>>

fetch_vars == <<params, upstream, response, attempts>>

http_vars == <<config, now, rate_limit_store, open_sessions, admitted, reply>>

\* One call runs by itself.
Alone == parked = NoneVal

\* No HTTP request is looked into.
HttpIdle ==
    /\ config = NoneVal
    /\ now = 0
    /\ rate_limit_store = <<>>
    /\ open_sessions = <<>>
    /\ admitted = <<>>
    /\ reply = NoneVal

\* No fetch_wiki call is looked into.
FetchIdle ==
    /\ params = NoneVal
    /\ upstream = NoneVal
    /\ response = NoneVal
    /\ attempts = 0
    /\ HttpIdle

NoResult == [kind |-> "none", lines |-> <<>>]

\* An empty dict.
EmptyDict == [k \in {} |-> <<>>]

DictGet(d, k, default) == IF k \in DOMAIN d THEN d[k] ELSE default

DictSet(d, k, v) == [x \in DOMAIN d \cup {k} |-> IF x = k THEN v ELSE d[x]]

InitCall(argument_set, worlds) ==
    /\ arguments \in argument_set
    /\ wiki \in worlds
    /\ feed = <<>>
    /\ pending = {}
    /\ pc = "call"
    /\ profile = NoneVal
    /\ qi = 1
    /\ candidates = <<>>
    /\ errors = <<>>
    /\ ranked_candidates = <<>>
    /\ ci = 1
    /\ summaries = EmptyDict
    /\ page_snippets = EmptyDict
    /\ section_citations = EmptyDict
    /\ context = NoneVal
    /\ result = NoResult
    /\ calls = <<>>
    /\ observed = <<>>
    /\ FetchIdle

\* A gate that lets every input through.
IsFalsy_Never(normalized) == FALSE

\* `if not normalized`
IsFalsy(normalized) == normalized = NoneVal

\* call_tool, lines 1002-1005: the validation gate.  The error text is the
\* cross mark and the message; on success gathering starts with the first
\* seed search.
CallTool ==
    /\ pc = "call"
    /\ LET r == normalize_mining_plan_inputs(arguments) IN
       IF IsFalsy(r.normalized)
       THEN /\ result' = [kind |-> "error", lines |-> << <<"X ">> \o r.msg >>]
            /\ pc' = "done"
            /\ UNCHANGED profile
       ELSE /\ profile' = r.normalized
            /\ pc' = "search"
            /\ UNCHANGED result
    /\ UNCHANGED <<arguments, wiki, qi, gather_vars, calls, observed, order_vars, fetch_vars, http_vars, parked>>

\* A fetch_wiki call and what came back: "error" (an error descriptor), "ok"
\* (the expected payload) or "bad" (a payload of another shape).
Call(action, target, outcome) == [action |-> action, target |-> target, outcome |-> outcome]

\* The calls that did not return the expected payload.
FailedCalls == {i \in 1..Len(calls) : calls[i].outcome # "ok"}

\* The upstream may fail this call: always, but in the wide world only while
\* fewer than MaxFailures calls have failed, and with a second call in
\* flight only as the first failure of this call.
MayFail ==
    /\ wiki = "wide" => Cardinality(FailedCalls) < MaxFailures
    /\ ~Alone => FailedCalls = {}

\* errors.append(f"{phase}:{name}")
Tag(phase, name) == <<phase>> \o name

\* The ranking and the first summary right after the first seed search.
AfterSearch_Early(cands) ==
    /\ candidates' = cands
    /\ pc' = "summary"
    /\ ranked_candidates' = RankCandidates(cands)
    /\ UNCHANGED qi
    /\ UNCHANGED <<arguments, wiki, profile, ci, summaries, page_snippets,
                   section_citations, context, result, order_vars, fetch_vars, http_vars, parked>>

\* After the answer to seed query qi is processed: the next query, or, after
\* the last one, the ranking of lines 334-348 and the first summary (the
\* ranked list is never empty, so there is one).
AfterSearch(cands) ==
    /\ candidates' = cands
    /\ IF qi < Len(MINING_SEED_QUERIES)
       THEN /\ qi' = qi + 1
            /\ UNCHANGED <<pc, ranked_candidates>>
       ELSE /\ pc' = "summary"
            /\ ranked_candidates' = RankCandidates(cands)
            /\ UNCHANGED qi
    /\ UNCHANGED <<arguments, wiki, profile, ci, summaries, page_snippets,
                   section_citations, context, result, order_vars, fetch_vars, http_vars, parked>>

\* A failed seed search that raises instead of being tagged and skipped.
SearchError_Raises ==
    /\ pc = "search"
    /\ MayFail
    /\ calls' = Append(calls, Call("opensearch", MINING_SEED_QUERIES[qi], "error"))
    /\ pc' = "raised"
    /\ result' = [kind |-> "exception", lines |-> <<>>]
    /\ UNCHANGED <<arguments, wiki, profile, qi, gather_vars, observed, order_vars, fetch_vars, http_vars, parked>>

\* lines 308-310: the search returned an error descriptor.
SearchError ==
    /\ pc = "search"
    /\ MayFail
    /\ calls' = Append(calls, Call("opensearch", MINING_SEED_QUERIES[qi], "error"))
    /\ errors' = Append(errors, Tag("search:", MINING_SEED_QUERIES[qi]))
    /\ AfterSearch(candidates)
    /\ UNCHANGED observed

\* lines 312-332: the search returned [query, titles, descriptions, urls].
SearchOk ==
    /\ pc = "search"
    /\ \E answer \in SearchAnswers(wiki, qi) :
        LET obs == Observations(answer, MINING_SEED_QUERIES[qi]) IN
        /\ observed' = observed \o obs
        /\ AfterSearch(MergeAll(candidates, obs))
    /\ calls' = Append(calls, Call("opensearch", MINING_SEED_QUERIES[qi], "ok"))
    /\ UNCHANGED errors

\* A payload that is neither an error descriptor nor a list, such as a JSON
\* object with two keys: `data[1]` raises KeyError, which nothing catches.
SearchBad ==
    /\ pc = "search"
    /\ MayFail
    /\ calls' = Append(calls, Call("opensearch", MINING_SEED_QUERIES[qi], "bad"))
    /\ pc' = "raised"
    /\ result' = [kind |-> "exception", lines |-> <<>>]
    /\ UNCHANGED <<arguments, wiki, profile, qi, gather_vars, observed, order_vars, fetch_vars, http_vars, parked>>

(***************************************************************************)
(* PlanComposer: build_mining_plan_markdown.  The document is the sequence *)
(* of its lines (the code joins them with a newline); a line is a sequence *)
(* of tokens: fixed text as one token, inserted text character by          *)
(* character.                                                              *)
(***************************************************************************)
\* float(profile["hours_per_session"]), in hundredths of an hour; NaN is
\* carried as -1 (no number that passed validation is negative).
Hundredths(v) == IF v.t = "int" THEN 100 * v.lo ELSE IF IsNaN(v) THEN 0 - 1 ELSE v.h

\* f"{x:.1f}" of x = h / 100: rounded to the nearest tenth, a tie to the even
\* tenth (for a tie Python rounds the binary value, which is exact only for
\* .25 and .75).
Format1f(h) ==
    LET down == h \div 10
        rest == h % 10
        tenths == IF rest > 5 \/ (rest = 5 /\ down % 2 = 1) THEN down + 1 ELSE down
    IN IF h < 0 THEN <<"n","a","n">>
       ELSE Digits(tenths \div 10, 1) \o <<".">> \o Digits(tenths % 10, 1)

\* f"{n:,}" on the digits of n.
RECURSIVE Commas(_)
Commas(ds) ==
    IF Len(ds) <= 3 THEN ds
    ELSE Commas(SubSeq(ds, 1, Len(ds) - 3)) \o <<",">> \o SubSeq(ds, Len(ds) - 2, Len(ds))

\* any(token in text for token in tokens)
AnyIn(tokens, text) == \E i \in 1..Len(tokens) : Contains(tokens[i], text)

LOSS_TOKENS == <<<<"l","o","s","t">>, <<"k","i","l","l","e","d">>, <<"g","a","n","k","e","d">>, <<"d","e","s","t","r","o","y","e","d">>, <<"d","e","a","t","h">>>>
LOW_ISK_TOKENS == <<<<"b","r","o","k","e">>, <<"l","o","w"," ","i","s","k">>, <<"n","o"," ","i","s","k">>, <<"c","a","n","'","t"," ","a","f","f","o","r","d">>>>
CONFUSION_TOKENS ==
    <<<<"s","t","u","c","k">>, <<"c","o","n","f","u","s","e","d">>, <<"o","v","e","r","w","h","e","l","m","e","d">>, <<"n","o","t"," ","s","u","r","e">>, <<"d","o","n","t"," ","k","n","o","w">>, <<"d","o","n","'","t"," ","k","n","o","w">>>>

\* lines 438-443
Day1Tasks(hundredths) ==
    IF hundredths < 0 THEN 5
    ELSE IF hundredths <= 100 THEN 3 ELSE IF hundredths <= 250 THEN 4 ELSE 5

\* The normal sentence whatever the context.
ConfidenceLine_AlwaysNormal(ctx) ==
    "Normal confidence: Wiki retrieval completed for core mining pages."

\* lines 451-455
ConfidenceLine(ctx) ==
    IF ctx.partial
    THEN "Reduced confidence: some wiki pages timed out or failed; plan uses partial context and conservative defaults."
    ELSE "Normal confidence: Wiki retrieval completed for core mining pages."

\* lines 457-459
ShoppingHeader(starting_isk) ==
    LET low_capital_mode == ~NumLess(IntVal(0), starting_isk)
        shopping_header == IF low_capital_mode
                           THEN "Start with low-capital purchases only."
                           ELSE "Use your starting ISK to front-load survivability."
    IN IF ~NumLess(starting_isk, IntVal(2000000))
       THEN "Prioritize a complete Venture fitting and spare replacements."
       ELSE shopping_header

\* The low-ISK keywords tried before the loss keywords.
FallbackIntro_LowIskFirst(recent_outcome) ==
    IF AnyIn(LOW_ISK_TOKENS, recent_outcome)
    THEN "You reported low ISK pressure. Run a low-capital recovery loop before upgrades."
    ELSE IF AnyIn(LOSS_TOKENS, recent_outcome)
    THEN "You reported a ship loss. Switch to a safer high-sec loop for the next 2 sessions."
    ELSE IF AnyIn(CONFUSION_TOKENS, recent_outcome)
    THEN "You reported confusion/stall. Use a simplified 3-task session to regain momentum."
    ELSE "If progress stalls, fall back to a short high-sec routine and reassess after one session."

\* lines 461-468
FallbackIntro(recent_outcome) ==
    IF AnyIn(LOSS_TOKENS, recent_outcome)
    THEN "You reported a ship loss. Switch to a safer high-sec loop for the next 2 sessions."
    ELSE IF AnyIn(LOW_ISK_TOKENS, recent_outcome)
    THEN "You reported low ISK pressure. Run a low-capital recovery loop before upgrades."
    ELSE IF AnyIn(CONFUSION_TOKENS, recent_outcome)
    THEN "You reported confusion/stall. Use a simplified 3-task session to regain momentum."
    ELSE "If progress stalls, fall back to a short high-sec routine and reassess after one session."

\* lines 470-476, before the cut to day1_tasks
DAY1_ITEMS ==
    << <<"Complete the mining-focused Career Agent steps and accept all tutorial rewards.">>,
       <<"Acquire or verify access to a Venture hull and fit basic mining modules.">>,
       <<"Run a short high-sec mining session and record ISK earned, cargo cycles, and travel time.">>,
       <<"Create one bookmark for station tether/dock and one for your preferred belt entry.">>,
       <<"Set overview and d-scan habits before undocking again.">> >>

\* lines 478-487
Week1Items(week_target_sessions, confusion_mode) ==
    << <<"Run ">> \o Digits(week_target_sessions, 1)
            \o <<" mining sessions in high-sec with a short pre-undock safety check.">>,
       IF confusion_mode
       THEN <<"Keep each session to three goals: undock safely, fill hold once, dock safely.">>
       ELSE <<"After each session, review: ISK/hour, number of interruptions, and risk events.">>,
       <<"Upgrade fitting only when you can afford replacement of your current ship and modules.">>,
       <<"Practice route discipline: avoid predictable belts when local activity spikes.">>,
       <<"At end of week, choose one improvement goal: cycle uptime, hauling efficiency, or survival habits.">> >>

\* [f"{idx + 1}. {item}" for idx, item in enumerate(items)]
Numbered(items) == [i \in 1..Len(items) |-> Digits(i, 1) \o <<". ">> \o items[i]]

\* _format_source
format_source(section_name, ctx) ==
    LET url == DictGet(ctx.section_citations, section_name, <<>>) IN
    <<"Source: ">> \o (IF Len(url) = 0 THEN build_wiki_url(Str_Mining) ELSE url)

\* f"## {section_name}"
Header(section_name) == <<"## ", section_name>>

SOURCES_LIMIT == 10

\* Every candidate with a url is listed, also under a url listed before.
RECURSIVE SourceLoop_NoDedupe(_, _, _)
SourceLoop_NoDedupe(cands, source_urls, lines) ==
    IF Len(cands) = 0 THEN [source_urls |-> source_urls, lines |-> lines]
    ELSE IF Len(cands[1].url) = 0
         THEN SourceLoop_NoDedupe(Tail(cands), source_urls, lines)
         ELSE SourceLoop_NoDedupe(Tail(cands), Append(source_urls, cands[1].url),
                                  Append(lines, <<"- ">> \o cands[1].title
                                                \o <<": ">> \o cands[1].url))

\* lines 562-569: the urls listed so far and the lines added, over the
\* candidates in rank order.
RECURSIVE SourceLoop(_, _, _)
SourceLoop(cands, source_urls, lines) ==
    IF Len(cands) = 0 THEN [source_urls |-> source_urls, lines |-> lines]
    ELSE LET url == cands[1].url
             title == cands[1].title
         IN IF Len(url) = 0 \/ \E i \in 1..Len(source_urls) : source_urls[i] = url
            THEN SourceLoop(Tail(cands), source_urls, lines)
            ELSE SourceLoop(Tail(cands), Append(source_urls, url),
                            Append(lines, <<"- ">> \o title \o <<": ">> \o url))

\* lines 562-572
SourceLines(ctx) ==
    LET listed == SourceLoop(SubSeq(ctx.ranked_candidates, 1,
                                    Min(SOURCES_LIMIT, Len(ctx.ranked_candidates))),
                             <<>>, <<>>)
    IN IF Len(listed.source_urls) = 0
       THEN << <<"- Mining: ">> \o build_wiki_url(Str_Mining) >>
       ELSE listed.lines

RETRY_NOTE ==
    "Note: Some wiki requests failed during planning. Retry for fresher/complete citations."

\* lines 574-580
RetryNote(ctx) ==
    IF Len(ctx.errors) > 0 THEN << <<>>, <<RETRY_NOTE>> >> ELSE <<>>


\* lines 489-499
ProfileSection(prof, ctx) ==
    LET assets == IF Len(Strip(prof.current_assets.s)) = 0
                  THEN <<"No assets provided">>
                  ELSE Strip(prof.current_assets.s)
    IN << <<"# Newbro Mining Copilot Plan">>,
          <<>>,
          Header("Profile + Assumptions"),
          <<"- Experience level: ">> \o prof.experience_level.s,
          <<"- Risk preference: ">> \o prof.risk_preference.s,
          <<"- Time budget: ">> \o Format1f(Hundredths(prof.hours_per_session))
              \o <<"h/session, ">> \o IntStr(prof.sessions_per_week)
              \o <<" sessions/week">>,
          <<"- Starting ISK: ">> \o Commas(IntStr(prof.starting_isk)),
          <<"- Current assets: ">> \o assets,
          <<"- Confidence: ", ConfidenceLine(ctx)>>,
          format_source("Profile + Assumptions", ctx),
          <<>> >>

\* lines 501-508
Day1Section(prof, ctx) ==
    << Header("Day 1 Plan") >>
    \o Numbered(SubSeq(DAY1_ITEMS, 1, Day1Tasks(Hundredths(prof.hours_per_session))))
    \o << <<"Completion criteria: one safe undock-to-dock mining run with notes captured.">>,
          format_source("Day 1 Plan", ctx),
          <<>> >>

\* lines 509-517
Week1Section(prof, ctx) ==
    << Header("Week 1 Plan") >>
    \o Numbered(Week1Items(Min(prof.sessions_per_week.lo, 7),
                           AnyIn(CONFUSION_TOKENS, Lower(prof.recent_outcome.s))))
    \o << <<"Completion criteria: at least 3 logged sessions and one deliberate fitting/behavior improvement.">>,
          format_source("Week 1 Plan", ctx),
          <<>> >>

\* lines 518-524
ShoppingSection(prof, ctx) ==
    << Header("Shopping List"),
       <<"- ", ShoppingHeader(prof.starting_isk)>>,
       <<"- Venture hull (or replacement hull if already owned).">>,
       <<"- Basic mining lasers and low-cost tank modules before yield upgrades.">>,
       <<"- Mobile reserve: keep enough ISK for one full replacement before risky upgrades.">>,
       format_source("Shopping List", ctx),
       <<>> >>

\* lines 525-531
SkillSection(ctx) ==
    << Header("Skill Priorities (Alpha-safe)"),
       <<"1. Core fitting/powergrid/capacitor support to stabilize your fit.">>,
       <<"2. Mining throughput and mining frigate support skills.">>,
       <<"3. Basic navigation and survivability skills before yield-only specialization.">>,
       <<"4. Queue short skills first for immediate quality-of-life gains.">>,
       format_source("Skill Priorities (Alpha-safe)", ctx),
       <<>> >>

\* lines 532-538
SafetySection(ctx) ==
    << Header("Safety and Loss Prevention"),
       <<"1. Mine in high-sec systems with manageable local traffic and clear docking options.">>,
       <<"2. Treat every undock as disposable: never fly what you cannot replace.">>,
       <<"3. Pre-align and monitor local/d-scan; dock immediately on suspicious spikes.">>,
       <<"4. Avoid autopilot hauling of ore value you cannot lose.">>,
       format_source("Safety and Loss Prevention", ctx),
       <<>> >>

\* lines 539-544
WrongSection(prof, ctx) ==
    << Header("If Things Go Wrong"),
       <<"- ", FallbackIntro(Lower(prof.recent_outcome.s))>>,
       <<"- Recovery loop: one short safe run, sell ore, refill replacement fund, reassess fit.">>,
       <<"- If two losses happen in a row, downgrade risk and focus on safety drills only.">>,
       format_source("If Things Go Wrong", ctx),
       <<>> >>

\* The questions text is tested and echoed as given.
CheckinSection_Verbatim(prof, ctx) ==
    << Header("Next Session Check-in Questions"),
       <<"1. Did you complete a safe undock -> mine -> dock cycle?">>,
       <<"2. What blocked you most: travel, fitting, safety pressure, or income?">>,
       <<"3. Do you currently have replacement ISK for your active ship?">>,
       <<"4. Which single change should the next plan optimize first?">> >>
    \o (IF Len(prof.questions.s) > 0
        THEN << <<"5. Player focus question to address next: ">> \o prof.questions.s >>
        ELSE <<>>)
    \o << format_source("Next Session Check-in Questions", ctx),
          <<>> >>

\* lines 545-557
CheckinSection(prof, ctx) ==
    LET player_questions == Strip(prof.questions.s) IN
    << Header("Next Session Check-in Questions"),
       <<"1. Did you complete a safe undock -> mine -> dock cycle?">>,
       <<"2. What blocked you most: travel, fitting, safety pressure, or income?">>,
       <<"3. Do you currently have replacement ISK for your active ship?">>,
       <<"4. Which single change should the next plan optimize first?">> >>
    \o (IF Len(player_questions) > 0
        THEN << <<"5. Player focus question to address next: ">> \o player_questions >>
        ELSE <<>>)
    \o << format_source("Next Session Check-in Questions", ctx),
          <<>> >>

\* The Sources list without its header.
SourcesSection_NoHeader(ctx) == SourceLines(ctx)

\* lines 558-572
SourcesSection(ctx) == << Header("Sources") >> \o SourceLines(ctx)

\* The lines of the plan; the code returns "\n".join(lines).
build_mining_plan_markdown(prof, ctx) ==
    ProfileSection(prof, ctx)
    \o Day1Section(prof, ctx)
    \o Week1Section(prof, ctx)
    \o ShoppingSection(prof, ctx)
    \o SkillSection(ctx)
    \o SafetySection(ctx)
    \o WrongSection(prof, ctx)
    \o CheckinSection(prof, ctx)
    \o SourcesSection(ctx)
    \o RetryNote(ctx)


(***************************************************************************)
(* ContextGatherer after the ranking: summaries (lines 353-372), page      *)
(* snippets (374-397), section citations (399-409) and the return; then    *)
(* call_tool renders the plan (lines 1007-1009).                           *)
(***************************************************************************)
SUMMARY_TOP_N == 8
SNIPPET_TOP_N == 3
THIN_SUMMARY_LENGTH == 180
SNIPPET_LENGTH == 600

\* Only the top-ranked candidate is tried.
FirstMatchUrl_TopOnly(cands, keywords) ==
    IF Len(cands) > 0
       /\ AnyIn(keywords, Lower(cands[1].title \o <<" ">> \o cands[1].description))
    THEN cands[1].url ELSE <<>>

\* The first candidate in rank order whose haystack holds a keyword, lines 404-408.
RECURSIVE FirstMatchUrl(_, _)
FirstMatchUrl(cands, keywords) ==
    IF Len(cands) = 0 THEN <<>>
    ELSE LET haystack == Lower(cands[1].title \o <<" ">> \o cands[1].description) IN
         IF AnyIn(keywords, haystack) THEN cands[1].url
         ELSE FirstMatchUrl(Tail(cands), keywords)

\* lines 399-409
SectionCitations(ranked) ==
    LET fallback_url == ranked[1].url IN
    [name \in {SECTION_KEYWORDS[i].section : i \in 1..Len(SECTION_KEYWORDS)} |->
        LET k == CHOOSE i \in 1..Len(SECTION_KEYWORDS) : SECTION_KEYWORDS[i].section = name
            section_url == FirstMatchUrl(ranked, SECTION_KEYWORDS[k].keywords)
        IN IF Len(section_url) = 0 THEN fallback_url ELSE section_url]

\* "partial": len(errors) > 0
Partial(errs) == Len(errs) > 0

\* A summary for every ranked candidate.
SummaryCount_All == Len(ranked_candidates)

\* ranked_candidates[:8]
SummaryCount == Min(SUMMARY_TOP_N, Len(ranked_candidates))

\* A page only for a candidate without a stored summary.
NextPage_MissingOnly(from, sums) ==
    LET thin == {i \in from..Min(SNIPPET_TOP_N, Len(ranked_candidates)) :
                    ranked_candidates[i].title \notin DOMAIN sums}
    IN IF thin = {} THEN 0 ELSE CHOOSE i \in thin : \A j \in thin : i <= j

\* The next candidate of ranked_candidates[:3], from index `from` on, whose
\* stored summary is shorter than 180 characters or absent; 0 when none is.
NextPage(from, sums) ==
    LET thin == {i \in from..Min(SNIPPET_TOP_N, Len(ranked_candidates)) :
                    TextLen(DictGet(sums, ranked_candidates[i].title, Text(0, 0, 0)))
                        < THIN_SUMMARY_LENGTH}
    IN IF thin = {} THEN 0 ELSE CHOOSE i \in thin : \A j \in thin : i <= j

\* lines 399-418 and call_tool's lines 1008-1009.
Finish(errs, sums, snips) ==
    LET cites == SectionCitations(ranked_candidates)
        ctx == [ranked_candidates |-> ranked_candidates,
                summaries |-> sums,
                page_snippets |-> snips,
                errors |-> errs,
                partial |-> Partial(errs),
                section_citations |-> cites]
    IN /\ section_citations' = cites
       /\ context' = ctx
       /\ result' = [kind |-> "plan", lines |-> build_mining_plan_markdown(profile, ctx)]
       /\ pc' = "done"

\* The page loop from index `from`: the next page fetch, or the return.
PageLoop(from, errs, sums, snips) ==
    /\ errors' = errs
    /\ summaries' = sums
    /\ page_snippets' = snips
    /\ IF NextPage(from, sums) = 0
       THEN /\ Finish(errs, sums, snips)
            /\ UNCHANGED ci
       ELSE /\ ci' = NextPage(from, sums)
            /\ pc' = "page"
            /\ UNCHANGED <<section_citations, context, result>>
    /\ UNCHANGED <<arguments, wiki, profile, qi, candidates, ranked_candidates,
                   observed, order_vars, fetch_vars, http_vars, parked>>

\* After the answer for candidate ci: the next summary, or the page loop.
AfterSummary(errs, sums) ==
    IF ci < SummaryCount
    THEN /\ ci' = ci + 1
         /\ errors' = errs
         /\ summaries' = sums
         /\ UNCHANGED <<arguments, wiki, profile, qi, candidates, ranked_candidates,
                        observed, order_vars, fetch_vars, http_vars, parked, pc, page_snippets, section_citations,
                        context, result>>
    ELSE PageLoop(1, errs, sums, page_snippets)

\* A failed summary fetch that is skipped without a tag.
SummaryError_NoTag ==
    /\ pc = "summary"
    /\ MayFail
    /\ calls' = Append(calls, Call("extracts", ranked_candidates[ci].title, "error"))
    /\ AfterSummary(errors, summaries)

\* lines 366-368
SummaryError ==
    /\ pc = "summary"
    /\ MayFail
    /\ calls' = Append(calls, Call("extracts", ranked_candidates[ci].title, "error"))
    /\ AfterSummary(Append(errors, Tag("summary:", ranked_candidates[ci].title)),
                    summaries)

\* lines 370-372
SummaryOk ==
    /\ pc = "summary"
    /\ calls' = Append(calls, Call("extracts", ranked_candidates[ci].title, "ok"))
    /\ LET title == ranked_candidates[ci].title
           summary_text == extract_summary_from_query_response(TableExtract(title))
       IN AfterSummary(errors,
                       IF TextLen(summary_text) > 0
                       THEN DictSet(summaries, title, summary_text)
                       ELSE summaries)

\* A payload that is no JSON object, such as a list: `"error" in data` is
\* False and data.get raises AttributeError, which nothing catches.
SummaryBad ==
    /\ pc = "summary"
    /\ MayFail
    /\ calls' = Append(calls, Call("extracts", ranked_candidates[ci].title, "bad"))
    /\ pc' = "raised"
    /\ result' = [kind |-> "exception", lines |-> <<>>]
    /\ UNCHANGED <<arguments, wiki, profile, qi, gather_vars, observed, order_vars, fetch_vars, http_vars, parked>>

\* lines 389-391
PageError ==
    /\ pc = "page"
    /\ MayFail
    /\ calls' = Append(calls, Call("parse", ranked_candidates[ci].title, "error"))
    /\ PageLoop(ci + 1, Append(errors, Tag("page:", ranked_candidates[ci].title)),
                summaries, page_snippets)

\* lines 393-395
PageOk ==
    /\ pc = "page"
    /\ calls' = Append(calls, Call("parse", ranked_candidates[ci].title, "ok"))
    /\ LET title == ranked_candidates[ci].title
           markdown_content == TablePage(title)
       IN PageLoop(ci + 1, errors, summaries,
                   DictSet(page_snippets, title,
                           SliceText(StripText(markdown_content), SNIPPET_LENGTH)))

\* lines 393-397: a payload without parse/text/*, the except branch.
PageBad ==
    /\ pc = "page"
    /\ MayFail
    /\ calls' = Append(calls, Call("parse", ranked_candidates[ci].title, "bad"))
    /\ PageLoop(ci + 1, Append(errors, Tag("page-parse:", ranked_candidates[ci].title)),
                summaries, page_snippets)


(***************************************************************************)
(* One call of generate_newbro_mining_plan, from the arguments to the      *)
(* returned text, in the table world or the empty world.                   *)
(***************************************************************************)
Dict(d) == [t |-> "dict", d |-> d]

\* A text one character longer than the free-text limit.
OverlongText == [i \in 1..(MINING_PLAN_MAX_FREEFORM_LENGTH + 1) |-> "a"]

ValidArguments ==
    { NoneVal,
      Dict([hours_per_session |-> IntVal(3),
            sessions_per_week |-> IntVal(10),
            starting_isk |-> IntVal(2500000),
            current_assets |-> StrVal(<<" ","V","e","n","t","u","r","e"," ">>),
            recent_outcome |-> StrVal(<<"G","o","t"," ","g","a","n","k","e","d",","," ","n","o","w"," ","b","r","o","k","e">>),
            questions |-> StrVal(<<" ","W","h","a","t"," ","t","o"," ","f","i","t","?"," ">>)]) }

InvalidArguments ==
    { [t |-> "list"],
      Dict([hours_per_session |-> FloatVal(10)]),
      Dict([hours_per_session |-> FloatVal(801)]),
      Dict([hours_per_session |-> BoolVal(TRUE)]),
      Dict([sessions_per_week |-> IntVal(20)]),
      Dict([sessions_per_week |-> FloatVal(400)]),
      Dict([starting_isk |-> IntVal(0 - 1)]),
      Dict([starting_isk |-> BigIntVal(10, 1)]),
      Dict([experience_level |-> StrVal(<<"r","e","t","u","r","n","i","n","g">>)]),
      Dict([risk_preference |-> IntVal(1)]),
      Dict([current_assets |-> StrVal(OverlongText)]),
      Dict([recent_outcome |-> NoneVal]),
      Dict([questions |-> StrVal(<<"a", Nul, "b">>)]),
      Dict([hours_per_session |-> StrVal(<<"2">>)]),
      Dict([sessions_per_week |-> IntVal(0)]),
      Dict([sessions_per_week |-> BoolVal(TRUE)]),
      Dict([starting_isk |-> FloatVal(150)]),
      Dict([experience_level |-> NoneVal]),
      Dict([risk_preference |-> StrVal(<<"b","o","l","d">>)]),
      Dict([current_assets |-> IntVal(5)]),
      Dict([current_assets |-> StrVal(<<Nul>>)]),
      Dict([recent_outcome |-> StrVal(OverlongText)]),
      Dict([recent_outcome |-> StrVal(<<"l","o","s","t", Nul>>)]),
      Dict([questions |-> BoolVal(FALSE)]),
      Dict([questions |-> StrVal(OverlongText)]),
      Dict([questions |-> StrVal(OverlongText \o <<Nul>>)]),
      Dict([hours_per_session |-> FloatVal(10), sessions_per_week |-> IntVal(20),
            questions |-> StrVal(<<Nul>>)]),
      Dict([risk_preference |-> StrVal(<<"b","o","l","d">>),
            current_assets |-> StrVal(OverlongText)]),
      Dict([starting_isk |-> IntVal(0 - 1), recent_outcome |-> StrVal(<<Nul>>),
            questions |-> IntVal(1)]) }

Init == InitCall(ValidArguments \cup InvalidArguments, {"table", "empty"}) /\ Alone

Next ==
    \/ CallTool
    \/ SearchError
    \/ SearchOk
    \/ SearchBad
    \/ SummaryError
    \/ SummaryOk
    \/ SummaryBad
    \/ PageError
    \/ PageOk
    \/ PageBad

Spec == Init /\ [][Next]_vars


(***************************************************************************)
(* One call with default arguments in the wide world, where more titles    *)
(* are found than any later phase takes and few calls fail.                *)
(***************************************************************************)
InitWide == InitCall({NoneVal}, {"wide"}) /\ Alone

SpecWide == InitWide /\ [][Next]_vars

(***************************************************************************)
(* The composer as a function of the profile: the arguments are normalized *)
(* (lines 1002-1005) and the plan is rendered (line 1008) from a context   *)
(* the gatherer returns, the one of a run whose calls all failed or the    *)
(* one of a run in the empty world whose calls all succeeded.              *)
(***************************************************************************)
RECENT_OUTCOMES ==
    { <<>>,
      <<"L","o","s","t"," ","m","y"," ","V","e","n","t","u","r","e">>,
      <<"G","A","N","K","E","D",","," ","b","r","o","k","e"," ","a","n","d"," ","c","o","n","f","u","s","e","d">>,
      <<"I"," ","a","m"," ","b","r","o","k","e">>,
      <<"n","o"," ","i","s","k",","," ","a","n","d"," ","s","t","u","c","k">>,
      <<"C","o","n","f","u","s","e","d">>,
      <<"m","i","n","e","d"," ","f","i","n","e">>,
      <<"M","y"," ","s","h","i","p"," ","w","a","s"," ","d","e","s","t","r","o","y","e","d">> }

QUESTIONS ==
    { <<>>,
      <<" "," ">>,
      <<" ","W","h","a","t"," ","t","o"," ","f","i","t","?"," ">>,
      <<"W","h","y","?">> }

STARTING_ISK == {0, 1500000, 2500000}

ComposeArguments ==
    { Dict([starting_isk |-> IntVal(isk), recent_outcome |-> StrVal(outcome),
            questions |-> StrVal(asked)]) :
        isk \in STARTING_ISK, outcome \in RECENT_OUTCOMES, asked \in QUESTIONS }

\* What gather_mining_wiki_context returns when every call fails.
AllFailedContext ==
    [ranked_candidates |-> <<DefaultCandidate>>,
     summaries |-> EmptyDict,
     page_snippets |-> EmptyDict,
     errors |-> [i \in 1..Len(MINING_SEED_QUERIES) |-> Tag("search:", MINING_SEED_QUERIES[i])]
                \o <<Tag("summary:", Str_Mining), Tag("page:", Str_Mining)>>,
     partial |-> TRUE,
     section_citations |-> SectionCitations(<<DefaultCandidate>>)]

\* What it returns in the empty world when every call succeeds.
NothingFoundContext ==
    [ranked_candidates |-> <<DefaultCandidate>>,
     summaries |-> DictSet(EmptyDict, Str_Mining, Text(0, 400, 0)),
     page_snippets |-> EmptyDict,
     errors |-> <<>>,
     partial |-> FALSE,
     section_citations |-> SectionCitations(<<DefaultCandidate>>)]

InitComposer(argument_set) ==
    /\ arguments \in argument_set
    /\ context \in {AllFailedContext, NothingFoundContext}
    /\ wiki = "none"
    /\ feed = <<>>
    /\ pending = {}
    /\ pc = "normalize"
    /\ profile = NoneVal
    /\ qi = 1
    /\ candidates = <<>>
    /\ errors = context.errors
    /\ ranked_candidates = context.ranked_candidates
    /\ ci = 1
    /\ summaries = context.summaries
    /\ page_snippets = context.page_snippets
    /\ section_citations = context.section_citations
    /\ result = NoResult
    /\ calls = <<>>
    /\ observed = <<>>
    /\ FetchIdle
    /\ Alone

InitCompose == InitComposer(ComposeArguments)

\* call_tool, lines 1002-1005
Normalize ==
    /\ pc = "normalize"
    /\ LET r == normalize_mining_plan_inputs(arguments) IN
       IF IsFalsy(r.normalized)
       THEN /\ result' = [kind |-> "error", lines |-> << <<"X ">> \o r.msg >>]
            /\ pc' = "done"
            /\ UNCHANGED profile
       ELSE /\ profile' = r.normalized
            /\ pc' = "compose"
            /\ UNCHANGED result
    /\ UNCHANGED <<arguments, wiki, qi, gather_vars, calls, observed, order_vars, fetch_vars, http_vars, parked>>

\* call_tool, lines 1008-1009
Compose ==
    /\ pc = "compose"
    /\ result' = [kind |-> "plan", lines |-> build_mining_plan_markdown(profile, context)]
    /\ pc' = "done"
    /\ UNCHANGED <<arguments, wiki, profile, qi, gather_vars, calls, observed, order_vars, fetch_vars, http_vars, parked>>

SpecCompose == InitCompose /\ [][Normalize \/ Compose]_vars

(***************************************************************************)
(* The same two steps for hours_per_session and sessions_per_week at and   *)
(* around their bounds: numbers of both types, a boolean, and NaN, which   *)
(* json.loads and float() produce and isinstance(value, float) admits.     *)
(***************************************************************************)
BoundaryArguments ==
    { Dict([hours_per_session |-> hours, sessions_per_week |-> sessions]) :
        hours \in {FloatVal(h) : h \in {10, 49, 50, 51, 150, 799, 800, 801}}
                  \cup {IntVal(n) : n \in {0, 1, 8, 9}} \cup {BoolVal(TRUE), NanVal},
        sessions \in {IntVal(n) : n \in {0 - 1, 0, 1, 7, 14, 15, 20}}
                     \cup {BoolVal(TRUE), FloatVal(400)} }

InitBounds == InitComposer(BoundaryArguments)

SpecBounds == InitBounds /\ [][Normalize \/ Compose]_vars

(***************************************************************************)
(* fetch_wiki, lines 91-106, on its own: one call, for each behaviour of   *)
(* the upstream.  A behaviour is the exception client.get raises, if any,  *)
(* and else the status and the body of the reply.  raise_for_status raises *)
(* HTTPStatusError for every status outside 200-299; response.json()      *)
(* raises a decoding error on a body that is not JSON.                     *)
(***************************************************************************)
TIMEOUT_EXCEPTIONS == {"ConnectTimeout", "ReadTimeout", "WriteTimeout", "PoolTimeout"}

OTHER_EXCEPTIONS == {"ConnectError", "ReadError", "RemoteProtocolError"}

STATUS_CODES == {200, 201, 204, 301, 302, 304, 400, 403, 404, 429, 500, 502, 503, 504}

BODIES == {"list", "object", "error_object", "not_json"}

Behaviour(exception, status, body) ==
    [exception |-> exception, status |-> status, body |-> body]

UpstreamBehaviours ==
    {Behaviour(e, 0, "none") : e \in TIMEOUT_EXCEPTIONS \cup OTHER_EXCEPTIONS}
    \cup {Behaviour("none", status, body) : status \in STATUS_CODES, body \in BODIES}

\* What the try block raises: "none" when response.json() returns.
Raised(behaviour) ==
    IF behaviour.exception # "none" THEN behaviour.exception
    ELSE IF behaviour.status < 200 \/ behaviour.status > 299 THEN "HTTPStatusError"
    ELSE IF behaviour.body = "not_json" THEN "JSONDecodeError"
    ELSE "none"

ErrorDescriptor(info) == [kind |-> "error", info |-> info]

\* The except clauses in a different order: every exception is a failure.
HandleException_CatchAllFirst(exception) ==
    ErrorDescriptor("Request failed. Please try again later.")

\* lines 98-106
HandleException(exception) ==
    IF exception \in TIMEOUT_EXCEPTIONS
    THEN ErrorDescriptor("Request timed out. Wiki may be slow.")
    ELSE IF exception = "HTTPStatusError"
    THEN ErrorDescriptor("Wiki API returned an error. Please try again.")
    ELSE ErrorDescriptor("Request failed. Please try again later.")

fetch_wiki(behaviour) ==
    IF Raised(behaviour) = "none"
    THEN [kind |-> "payload", data |-> behaviour.body]
    ELSE HandleException(Raised(behaviour))

InitFetch ==
    /\ params \in {"opensearch", "extracts", "parse"}
    /\ upstream \in UpstreamBehaviours
    /\ response = NoneVal
    /\ attempts = 0
    /\ HttpIdle
    /\ Alone
    /\ arguments = NoneVal
    /\ wiki = "none"
    /\ feed = <<>>
    /\ pending = {}
    /\ pc = "fetch"
    /\ profile = NoneVal
    /\ qi = 1
    /\ candidates = <<>>
    /\ errors = <<>>
    /\ ranked_candidates = <<>>
    /\ ci = 1
    /\ summaries = EmptyDict
    /\ page_snippets = EmptyDict
    /\ section_citations = EmptyDict
    /\ context = NoneVal
    /\ result = NoResult
    /\ calls = <<>>
    /\ observed = <<>>

\* One call of fetch_wiki: one client.get, then the return.
FetchWiki ==
    /\ pc = "fetch"
    /\ attempts' = attempts + 1
    /\ response' = fetch_wiki(upstream)
    /\ pc' = "returned"
    /\ UNCHANGED <<arguments, wiki, profile, qi, gather_vars, result, calls, observed,
                   order_vars, params, upstream, http_vars, parked>>

SpecFetch == InitFetch /\ [][FetchWiki]_vars

(***************************************************************************)
(* The HTTP layer, lines 1034-1149: the routes /sse, /messages/ and        *)
(* /health of the Starlette app, the guards authorize_request and          *)
(* enforce_rate_limit, and the rate limiter check_rate_limit (lines        *)
(* 72-88).  A guard has no await before it returns, so a handler runs from *)
(* the request to the hand-over to the transport in one step.  What the    *)
(* transport then answers is the MCP library's: 202 for a message of an    *)
(* open session, 400 for a request without session id or with a body that  *)
(* does not parse, 404 for a session it does not know.                     *)
(***************************************************************************)
TOKEN == <<"s","e","c","r","e","t">>

BEARER == <<"B","e","a","r","e","r"," ">>

\* request.client.host; "" for a request without client.
HOSTS == {"10.0.0.1", ""}

\* The Authorization header of a request; <<>> when it sends none.
AUTHORIZATION_HEADERS ==
    { <<>>,
      BEARER \o TOKEN,
      BEARER \o <<"w","r","o","n","g">>,
      <<"b","e","a","r","e","r"," ">> \o TOKEN,
      <<" ">> \o BEARER \o <<" ">> \o TOKEN \o <<" ">>,
      <<"s","e","c">> \o BEARER \o <<"r","e","t">> }

\* The session ids connect_sse hands out, and the session_id of a POST
\* ("s9" is never handed out).
SESSION_IDS == {"s1"}
POSTED_SESSION_IDS == SESSION_IDS \cup {"s9"}

\* The JSON-RPC method of a POST; "" for a body that does not parse.
RPC_METHODS == {"initialize", "tools/list", ""}

\* AUTH_TOKEN, RATE_LIMIT_REQUESTS and RATE_LIMIT_WINDOW as the environment
\* sets them (lines 39-44).
CONFIGURATIONS ==
    { [AUTH_TOKEN |-> <<>>, RATE_LIMIT_REQUESTS |-> 2, RATE_LIMIT_WINDOW |-> 2],
      [AUTH_TOKEN |-> TOKEN, RATE_LIMIT_REQUESTS |-> 1, RATE_LIMIT_WINDOW |-> 2],
      [AUTH_TOKEN |-> TOKEN, RATE_LIMIT_REQUESTS |-> 0, RATE_LIMIT_WINDOW |-> 2] }

MaxRequests == 3

\* str.replace(old, "")
RECURSIVE Remove(_, _)
Remove(s, old) ==
    IF Len(s) < Len(old) THEN s
    ELSE IF SubSeq(s, 1, Len(old)) = old
    THEN Remove(SubSeq(s, Len(old) + 1, Len(s)), old)
    ELSE <<s[1]>> \o Remove(Tail(s), old)

JSONResponse(body, status_code) == [status |-> status_code, body |-> body]

\* Only the /sse route asks for the token.
authorize_request_SseOnly(path, auth_header) ==
    IF config.AUTH_TOKEN # <<>> /\ path = "/sse"
          /\ Strip(Remove(auth_header, BEARER)) # config.AUTH_TOKEN
    THEN JSONResponse([error |-> "Unauthorized"], 401)
    ELSE NoneVal

\* lines 1050-1066
authorize_request(path, auth_header) ==
    IF config.AUTH_TOKEN # <<>> /\ path # "/health"
          /\ Strip(Remove(auth_header, BEARER)) # config.AUTH_TOKEN
    THEN JSONResponse([error |-> "Unauthorized"], 401)
    ELSE NoneVal

\* The limit is compared with > instead of >=.
check_rate_limit_Exceeds(client_id) ==
    LET Recent(timestamp) == now - timestamp < config.RATE_LIMIT_WINDOW
        kept == SelectSeq(rate_limit_store[client_id], Recent)
    IN IF Len(kept) > config.RATE_LIMIT_REQUESTS
       THEN [allowed |-> FALSE, store |-> [rate_limit_store EXCEPT ![client_id] = kept]]
       ELSE [allowed |-> TRUE,
             store |-> [rate_limit_store EXCEPT ![client_id] = Append(kept, now)]]

\* lines 72-88: whether the request is let through, and the store after it.
check_rate_limit(client_id) ==
    LET Recent(timestamp) == now - timestamp < config.RATE_LIMIT_WINDOW
        kept == SelectSeq(rate_limit_store[client_id], Recent)
    IN IF Len(kept) >= config.RATE_LIMIT_REQUESTS
       THEN [allowed |-> FALSE, store |-> [rate_limit_store EXCEPT ![client_id] = kept]]
       ELSE [allowed |-> TRUE,
             store |-> [rate_limit_store EXCEPT ![client_id] = Append(kept, now)]]

\* line 1074
ClientId(host) == IF host # "" THEN host ELSE "unknown"

\* lines 1068-1081
enforce_rate_limit(path, host) ==
    IF path = "/health" THEN [response |-> NoneVal, store |-> rate_limit_store]
    ELSE LET checked == check_rate_limit(ClientId(host)) IN
         [response |-> IF checked.allowed THEN NoneVal
                       ELSE JSONResponse(
                              [error |-> "Rate limit exceeded. Please try again later."],
                              429),
          store |-> checked.store]

\* sse.handle_post_message, line 1116: the status the transport answers.
handle_post_message(session_id, method) ==
    IF session_id = "" THEN 400
    ELSE IF session_id \notin DOMAIN open_sessions THEN 404
    ELSE IF method = "" THEN 400
    ELSE 202

\* The health route behind the token check of the other routes.
health_Guarded(host, auth_header) ==
    IF config.AUTH_TOKEN # <<>> /\ Strip(Remove(auth_header, BEARER)) # config.AUTH_TOKEN
    THEN JSONResponse([error |-> "Unauthorized"], 401)
    ELSE JSONResponse([status |-> "healthy", service |-> "eve-university-wiki-mcp",
                       version |-> "1.2.0"], 200)

\* lines 1121-1126
health(host, auth_header) ==
    JSONResponse([status |-> "healthy", service |-> "eve-university-wiki-mcp",
                  version |-> "1.2.0"], 200)

\* The header carries the configured token: alone or after the scheme word,
\* whitespace around it aside.
PresentsToken(auth_header) ==
    Strip(Remove(auth_header, BEARER)) = config.AUTH_TOKEN

\* The record of a request and its answer.  `presented` tells whether the
\* Authorization header carried the token, `handed` whether the request
\* reached the transport, `ready` whether its session was initialized when
\* it arrived.
Reply(path, host, auth_header, session_id, method, answer, handed) ==
    [seq |-> reply.seq + 1, path |-> path, client_id |-> ClientId(host),
     presented |-> PresentsToken(auth_header), session_id |-> session_id,
     method |-> method,
     ready |-> session_id \in DOMAIN open_sessions
               /\ open_sessions[session_id] = "initialized",
     status |-> answer.status, body |-> answer.body, handed |-> handed,
     at |-> now]

InitHttp ==
    /\ config \in CONFIGURATIONS
    /\ now = 0
    /\ rate_limit_store = [c \in {ClientId(host) : host \in HOSTS} |-> <<>>]
    /\ open_sessions = <<>>
    /\ admitted = [c \in {ClientId(host) : host \in HOSTS} |-> <<>>]
    /\ reply = [seq |-> 0, path |-> "", status |-> 0]
    /\ Alone
    /\ params = NoneVal
    /\ upstream = NoneVal
    /\ response = NoneVal
    /\ attempts = 0
    /\ arguments = NoneVal
    /\ wiki = "none"
    /\ feed = <<>>
    /\ pending = {}
    /\ pc = "serve"
    /\ profile = NoneVal
    /\ qi = 1
    /\ candidates = <<>>
    /\ errors = <<>>
    /\ ranked_candidates = <<>>
    /\ ci = 1
    /\ summaries = EmptyDict
    /\ page_snippets = EmptyDict
    /\ section_citations = EmptyDict
    /\ context = NoneVal
    /\ result = NoResult
    /\ calls = <<>>
    /\ observed = <<>>

tool_vars ==
    <<arguments, wiki, pc, profile, qi, gather_vars, result, calls, observed,
      order_vars, fetch_vars, parked>>

\* The guards of handle_sse and handle_messages, lines 1084-1090 and
\* 1108-1114: the answer of the guard that stopped the request, if one did,
\* and the store after them.
Guards(path, host, auth_header) ==
    LET auth_error == authorize_request(path, auth_header)
        rate == enforce_rate_limit(path, host)
    IN IF auth_error # NoneVal
       THEN [response |-> auth_error, store |-> rate_limit_store]
       ELSE rate

\* handle_sse, lines 1083-1105
HandleSse ==
    /\ pc = "serve"
    /\ reply.seq < MaxRequests
    /\ \E host \in HOSTS, auth_header \in AUTHORIZATION_HEADERS :
        LET guard == Guards("/sse", host, auth_header)
            free == SESSION_IDS \ DOMAIN open_sessions
        IN /\ rate_limit_store' = guard.store
           /\ IF guard.response # NoneVal
              THEN /\ reply' = Reply("/sse", host, auth_header, "", "",
                                     guard.response, FALSE)
                   /\ UNCHANGED <<open_sessions, admitted>>
              ELSE /\ reply' = Reply("/sse", host, auth_header, "", "",
                                     JSONResponse(NoneVal, 200), TRUE)
                   /\ admitted' = [admitted EXCEPT ![ClientId(host)] = Append(@, now)]
                   /\ open_sessions' =
                        IF free = {} THEN open_sessions
                        ELSE DictSet(open_sessions, CHOOSE sid \in free : TRUE, "connected")
    /\ UNCHANGED <<config, now, tool_vars>>

\* handle_messages, lines 1107-1118
HandleMessages ==
    /\ pc = "serve"
    /\ reply.seq < MaxRequests
    /\ \E host \in HOSTS, auth_header \in AUTHORIZATION_HEADERS,
          session_id \in POSTED_SESSION_IDS, method \in RPC_METHODS :
        LET guard == Guards("/messages/", host, auth_header)
            status == handle_post_message(session_id, method)
        IN /\ rate_limit_store' = guard.store
           /\ IF guard.response # NoneVal
              THEN /\ reply' = Reply("/messages/", host, auth_header, session_id, method,
                                     guard.response, FALSE)
                   /\ UNCHANGED <<open_sessions, admitted>>
              ELSE /\ reply' = Reply("/messages/", host, auth_header, session_id, method,
                                     JSONResponse(NoneVal, status), TRUE)
                   /\ admitted' = [admitted EXCEPT ![ClientId(host)] = Append(@, now)]
                   /\ open_sessions' =
                        IF status = 202 /\ method = "initialize"
                        THEN DictSet(open_sessions, session_id, "initialized")
                        ELSE open_sessions
    /\ UNCHANGED <<config, now, tool_vars>>

\* The /health route, lines 1120-1126 and 1146.
Health ==
    /\ pc = "serve"
    /\ reply.seq < MaxRequests
    /\ \E host \in HOSTS, auth_header \in AUTHORIZATION_HEADERS :
        reply' = Reply("/health", host, auth_header, "", "",
                       health(host, auth_header), FALSE)
    /\ UNCHANGED <<config, now, rate_limit_store, open_sessions, admitted, tool_vars>>

\* A second passes, until one window has gone by.
Tick ==
    /\ pc = "serve"
    /\ now < config.RATE_LIMIT_WINDOW
    /\ now' = now + 1
    /\ UNCHANGED <<config, rate_limit_store, open_sessions, admitted, reply, tool_vars>>

SpecHttp == InitHttp /\ [][HandleSse \/ HandleMessages \/ Health \/ Tick]_vars

(***************************************************************************)
(* The search_eve_wiki tool, lines 737-784 of call_tool.  arguments is a   *)
(* dict with the keys the caller sent; upstream is what the wiki does with *)
(* the one opensearch request: an exception or status as for fetch_wiki,   *)
(* and else the titles, descriptions and urls of the reply, whose first    *)
(* element echoes the search text.                                         *)
(***************************************************************************)
MAX_QUERY_LENGTH == 500

NUL == "\\x00"

Repeat(c, n) == [i \in 1..n |-> c]

ListVal(items) == [t |-> "list", items |-> items]

\* lines 54-69: "" when the value is valid, else the message.
validate_string_input(value, max_length, field_name) ==
    IF value.t # "str" THEN <<field_name, "must be a string">>
    ELSE IF Len(value.s) = 0 THEN <<field_name, "cannot be empty">>
    ELSE IF Len(value.s) > max_length
    THEN <<field_name, "exceeds maximum length of", max_length>>
    ELSE IF \E i \in 1..Len(value.s) : value.s[i] = NUL
    THEN <<field_name, "contains invalid characters">>
    ELSE <<>>

\* min(a, b) of the builtin: a unless b < a; TypeError when the two do not
\* compare.
Comparable(v) == v.t \in {"int", "float"}

BuiltinMin(a, b) == IF NumLess(b, a) THEN b ELSE a

\* line 745: min(arguments.get("limit", 10), 50)
SearchLimit(args) == BuiltinMin(DictGet(args, "limit", IntVal(10)), IntVal(50))

SEARCH_QUERIES ==
    {StrVal(<<"V","e","n","t","u","r","e">>), StrVal(<<"e","r","r","o","r">>),
     StrVal(<<"E","r","r","o","r">>), StrVal(<<>>), StrVal(<<"o","r","e",NUL>>),
     StrVal(Repeat("a", MAX_QUERY_LENGTH)), StrVal(Repeat("a", MAX_QUERY_LENGTH + 1)),
     IntVal(7)}

SEARCH_LIMITS ==
    {IntVal(0 - 1), IntVal(0), IntVal(1), IntVal(10), IntVal(50), IntVal(51),
     FloatVal(250), StrVal(<<"5">>)}

SearchArguments ==
    {[query |-> q] : q \in SEARCH_QUERIES}
    \cup {[query |-> q, limit |-> l] : q \in SEARCH_QUERIES, l \in SEARCH_LIMITS}
    \cup {[limit |-> l] : l \in {IntVal(10)}}

\* titles, descriptions and urls of a reply; the wiki may send fewer
\* descriptions or urls than titles.
SEARCH_REPLIES ==
    {<<ListVal(<<>>), ListVal(<<>>), ListVal(<<>>)>>,
     <<ListVal(<<"Venture">>), ListVal(<<"">>), ListVal(<<"wiki/Venture">>)>>,
     <<ListVal(<<"Venture", "Mining">>), ListVal(<<"">>), ListVal(<<>>)>>,
     <<ListVal(<<"error">>), ListVal(<<"error">>), ListVal(<<"wiki/Error">>)>>}

SearchUpstreams ==
    {[exception |-> e, status |-> 0, reply |-> <<>>] : e \in {"ReadTimeout", "ConnectError"}}
    \cup {[exception |-> "none", status |-> 503, reply |-> <<>>]}
    \cup {[exception |-> "none", status |-> 200, reply |-> r] : r \in SEARCH_REPLIES}

\* fetch_wiki on the opensearch request: [query, titles, descriptions, urls].
SearchFetch(request, behaviour) ==
    LET exception == Raised(Behaviour(behaviour.exception, behaviour.status, "list"))
    IN IF exception = "none"
       THEN [kind |-> "payload",
             data |-> <<StrVal(request.search)>> \o behaviour.reply]
       ELSE HandleException(exception)

\* "error" in data: a key of the dict, or an element of the list.
ErrorIn(data) ==
    IF data.kind = "error" THEN TRUE
    ELSE \E i \in 1..Len(data.data) :
            data.data[i].t = "str" /\ data.data[i].s = <<"e","r","r","o","r">>

At(list, i, default) == IF i <= Len(list) THEN list[i] ELSE default

\* lines 755-784: what the tool does with the answer of fetch_wiki.
SearchResult(query, data) ==
    IF ErrorIn(data)
    THEN IF data.kind = "error"
         THEN [kind |-> "text", branch |-> "error", info |-> data.info]
         ELSE [kind |-> "raised", exception |-> "TypeError"]
    ELSE LET titles == IF Len(data.data) > 1 THEN data.data[2].items ELSE <<>>
             descriptions == IF Len(data.data) > 2 THEN data.data[3].items ELSE <<>>
             urls == IF Len(data.data) > 3 THEN data.data[4].items ELSE <<>>
         IN IF titles = <<>>
            THEN [kind |-> "text", branch |-> "no results", query |-> query]
            ELSE [kind |-> "text", branch |-> "listing", query |-> query,
                  found |-> Len(titles),
                  results |-> [i \in 1..Len(titles) |->
                                  <<titles[i], At(descriptions, i, ""), At(urls, i, "")>>]]

InitSearch ==
    /\ arguments \in SearchArguments
    /\ upstream \in SearchUpstreams
    /\ params = NoneVal
    /\ response = NoneVal
    /\ attempts = 0
    /\ HttpIdle
    /\ Alone
    /\ wiki = "none"
    /\ feed = <<>>
    /\ pending = {}
    /\ pc = "call"
    /\ profile = NoneVal
    /\ qi = 1
    /\ candidates = <<>>
    /\ errors = <<>>
    /\ ranked_candidates = <<>>
    /\ ci = 1
    /\ summaries = EmptyDict
    /\ page_snippets = EmptyDict
    /\ section_citations = EmptyDict
    /\ context = NoneVal
    /\ result = NoResult
    /\ calls = <<>>
    /\ observed = <<>>

\* lines 738-753: validation, the limit and the request.
SearchCall ==
    /\ pc = "call"
    /\ LET query == DictGet(arguments, "query", StrVal(<<>>))
           error_msg == validate_string_input(query, MAX_QUERY_LENGTH, "query")
       IN IF error_msg # <<>>
          THEN /\ result' = [kind |-> "text", branch |-> "invalid", message |-> error_msg]
               /\ pc' = "done"
               /\ params' = params
          ELSE IF ~Comparable(DictGet(arguments, "limit", IntVal(10)))
          THEN /\ result' = [kind |-> "raised", exception |-> "TypeError"]
               /\ pc' = "raised"
               /\ params' = params
          ELSE /\ params' = [action |-> "opensearch", search |-> query.s,
                             limit |-> SearchLimit(arguments), format |-> "json",
                             namespace |-> "0"]
               /\ pc' = "fetch"
               /\ result' = result
    /\ UNCHANGED <<arguments, wiki, profile, qi, gather_vars, calls, observed,
                   order_vars, upstream, response, attempts, http_vars, parked>>

\* line 755: data = await fetch_wiki(params)
SearchAwait ==
    /\ pc = "fetch"
    /\ params # NoneVal
    /\ params.action = "opensearch"
    /\ "search" \in DOMAIN params
    /\ attempts' = attempts + 1
    /\ response' = SearchFetch(params, upstream)
    /\ pc' = "returned"
    /\ UNCHANGED <<arguments, wiki, profile, qi, gather_vars, result, calls, observed,
                   order_vars, params, upstream, http_vars, parked>>

\* lines 757-784
SearchReturn ==
    /\ pc = "returned"
    /\ params # NoneVal
    /\ "search" \in DOMAIN params
    /\ result' = SearchResult(params.search, response)
    /\ pc' = IF result'.kind = "raised" THEN "raised" ELSE "done"
    /\ UNCHANGED <<arguments, wiki, profile, qi, gather_vars, calls, observed,
                   order_vars, params, upstream, response, attempts, http_vars, parked>>

SpecSearch == InitSearch /\ [][SearchCall \/ SearchAwait \/ SearchReturn]_vars

(***************************************************************************)
(* Two generate_newbro_mining_plan calls on one event loop.  Everything a  *)
(* call works on is a local of call_tool (lines 1001-1009) or of           *)
(* gather_mining_wiki_context (lines 292-418), so a call is its frame; the *)
(* variables hold the frame of the call that runs and parked the frame of  *)
(* the call that waits.  The loop may switch calls wherever the running    *)
(* one awaits fetch_wiki, before it starts and after it returned.  The     *)
(* running call is answered from the table world with default arguments,   *)
(* the other from the empty world with arguments of its own.               *)
(***************************************************************************)
Frame ==
    [arguments |-> arguments, wiki |-> wiki, pc |-> pc, profile |-> profile,
     qi |-> qi, candidates |-> candidates, errors |-> errors,
     ranked_candidates |-> ranked_candidates, ci |-> ci, summaries |-> summaries,
     page_snippets |-> page_snippets, section_citations |-> section_citations,
     context |-> context, result |-> result, calls |-> calls, observed |-> observed]

NewFrame(args, world) ==
    [arguments |-> args, wiki |-> world, pc |-> "call", profile |-> NoneVal,
     qi |-> 1, candidates |-> <<>>, errors |-> <<>>,
     ranked_candidates |-> <<>>, ci |-> 1, summaries |-> EmptyDict,
     page_snippets |-> EmptyDict, section_citations |-> EmptyDict,
     context |-> NoneVal, result |-> NoResult, calls |-> <<>>, observed |-> <<>>]

PAIR_ARGUMENTS == ValidArguments \ {NoneVal}

InitPair ==
    /\ InitCall({NoneVal}, {"table"})
    /\ parked \in {NewFrame(args, "empty") : args \in PAIR_ARGUMENTS}

\* The locals of the call that resumes, all but its errors list.
Resume(frame) ==
    /\ arguments' = frame.arguments
    /\ wiki' = frame.wiki
    /\ pc' = frame.pc
    /\ profile' = frame.profile
    /\ qi' = frame.qi
    /\ candidates' = frame.candidates
    /\ ranked_candidates' = frame.ranked_candidates
    /\ ci' = frame.ci
    /\ summaries' = frame.summaries
    /\ page_snippets' = frame.page_snippets
    /\ section_citations' = frame.section_citations
    /\ context' = frame.context
    /\ result' = frame.result
    /\ calls' = frame.calls
    /\ observed' = frame.observed

\* An errors list that belongs to the module instead of the call.
Switch_SharedErrors ==
    /\ ~Alone
    /\ parked' = Frame
    /\ Resume(parked)
    /\ UNCHANGED <<errors, order_vars, fetch_vars, http_vars>>

\* The event loop leaves the running call at its await (lines 306, 364,
\* 387) and resumes the other one.
Switch ==
    /\ ~Alone
    /\ parked' = Frame
    /\ Resume(parked)
    /\ errors' = parked.errors
    /\ UNCHANGED <<order_vars, fetch_vars, http_vars>>

SpecPair == InitPair /\ [][Next \/ Switch]_vars

(***************************************************************************)
(* The ranker alone: one call with default arguments in the free world,    *)
(* up to the ranking that follows the last seed search.                    *)
(***************************************************************************)
InitRank == InitCall({NoneVal}, {"free"}) /\ Alone

NextRank == CallTool \/ SearchError \/ SearchOk \/ SearchBad

SpecRank == InitRank /\ [][NextRank]_vars

(***************************************************************************)
(* The merge and the ranking as a function of the observations alone: the  *)
(* observations of feed are delivered to the merge of lines 322-332 one at *)
(* a time in any order, and the ranking of lines 334-348 follows the last. *)
(* feed is drawn from the observations the seed searches can make; it is   *)
(* listed by score, as one listing of each collection of observations is   *)
(* enough: the arrival order is the order of delivery.                     *)
(***************************************************************************)
MaxFeed == 3

ObservationUniverse ==
    { ObservationAt(a, i, MINING_SEED_QUERIES[q]) :
        <<a, i, q>> \in { <<a, i, q>> \in FreeAnswers \X (1..2) \X (1..Len(MINING_SEED_QUERIES)) :
                            i <= Len(a.titles) } }

InitOrder ==
    /\ \E n \in 1..MaxFeed : feed \in [1..n -> ObservationUniverse]
    /\ \A i \in DOMAIN feed : i > 1 => feed[i - 1].score <= feed[i].score
    /\ pending = DOMAIN feed
    /\ arguments = NoneVal
    /\ wiki = "free"
    /\ pc = "merge"
    /\ profile = NoneVal
    /\ qi = 1
    /\ candidates = <<>>
    /\ errors = <<>>
    /\ ranked_candidates = <<>>
    /\ ci = 1
    /\ summaries = EmptyDict
    /\ page_snippets = EmptyDict
    /\ section_citations = EmptyDict
    /\ context = NoneVal
    /\ result = NoResult
    /\ calls = <<>>
    /\ observed = <<>>
    /\ FetchIdle
    /\ Alone

Deliver ==
    /\ pc = "merge"
    /\ \E i \in pending :
        LET cands == MergeObservation(candidates, feed[i]) IN
        /\ pending' = pending \ {i}
        /\ observed' = Append(observed, feed[i])
        /\ candidates' = cands
        /\ IF pending = {i}
           THEN /\ ranked_candidates' = RankCandidates(cands)
                /\ pc' = "ranked"
           ELSE UNCHANGED <<ranked_candidates, pc>>
    /\ UNCHANGED <<arguments, wiki, profile, qi, errors, ci, summaries, page_snippets,
                   section_citations, context, result, calls, feed, fetch_vars, http_vars, parked>>

SpecOrder == InitOrder /\ [][Deliver]_vars

(***************************************************************************)
(* Claims.                                                                 *)
(***************************************************************************)
\* The ranking of lines 334-348 has run.
HasRanked == pc \in {"summary", "page", "ranked"} \/ result.kind = "plan"

\* The indices of the observations of a case-insensitive title.
ObservedAs(key) == {i \in 1..Len(observed) : Lower(observed[i].title) = key}

MaxScore(is) == CHOOSE m \in {observed[i].score : i \in is} :
                    \A i \in is : observed[i].score <= m

\* The first observation of a title that carries the title's highest score.
FirstAtMax(is) == CHOOSE i \in is :
                    /\ observed[i].score = MaxScore(is)
                    /\ \A j \in is : observed[j].score = MaxScore(is) => i <= j

\* The calls that returned a payload of another shape.
BadCalls == {i \in 1..Len(calls) : calls[i].outcome = "bad"}

\* The k-th failed call, in call order.
RECURSIVE NthFailed(_, _)
NthFailed(k, from) ==
    IF from \in FailedCalls
    THEN IF k = 1 THEN from ELSE NthFailed(k - 1, from + 1)
    ELSE NthFailed(k, from + 1)

\* The tag that names a failed call.
TagOf(call) ==
    Tag(CASE call.action = "opensearch" -> "search:"
          [] call.action = "extracts" -> "summary:"
          [] call.action = "parse" /\ call.outcome = "error" -> "page:"
          [] OTHER -> "page-parse:",
        call.target)

\* The header lines of section_names[k..] occur in lines[from..] in order.
RECURSIVE HeadersFrom(_, _, _, _)
HeadersFrom(lines, section_names, k, from) ==
    IF k > Len(section_names) THEN TRUE
    ELSE LET hits == {i \in from..Len(lines) : lines[i] = <<"## ", section_names[k]>>} IN
         /\ hits # {}
         /\ HeadersFrom(lines, section_names, k + 1,
                        (CHOOSE i \in hits : \A j \in hits : i <= j) + 1)

NINE_SECTIONS ==
    <<"Profile + Assumptions", "Day 1 Plan", "Week 1 Plan", "Shopping List",
      "Skill Priorities (Alpha-safe)", "Safety and Loss Prevention",
      "If Things Go Wrong", "Next Session Check-in Questions", "Sources">>

REDUCED_CONFIDENCE_LINE ==
    <<"- Confidence: ",
      "Reduced confidence: some wiki pages timed out or failed; plan uses partial context and conservative defaults.">>

NORMAL_CONFIDENCE_LINE ==
    <<"- Confidence: ",
      "Normal confidence: Wiki retrieval completed for core mining pages.">>

RETRY_NOTE_LINE ==
    <<"Note: Some wiki requests failed during planning. Retry for fresher/complete citations.">>

HasLine(lines, line) == \E i \in 1..Len(lines) : lines[i] = line

\* C1: a call with a valid profile that returns, whatever mix of successes
\* and errors the wiki calls gave, returns a plan whose lines hold the nine
\* section headers in the fixed order.
C1_NineHeadersInOrder ==
    (pc = "done" /\ profile # NoneVal) =>
        /\ result.kind = "plan"
        /\ HeadersFrom(result.lines, NINE_SECTIONS, 1, 1)

\* C1's case: a custom profile, a run in which some wiki calls failed and
\* some succeeded, and the returned plan.
C1_Witness ==
    /\ pc = "done"
    /\ arguments # NoneVal
    /\ result.kind = "plan"
    /\ \E i, j \in 1..Len(calls) : calls[i].outcome = "error" /\ calls[j].outcome = "ok"
    /\ HeadersFrom(result.lines, NINE_SECTIONS, 1, 1)

\* C2: while the arguments of the call fail validation, no wiki request has
\* been issued, gathering and rendering have not begun, and what the call
\* returns is the validation error text.
C2_InvalidArgumentsIssueNoRequest ==
    LET r == normalize_mining_plan_inputs(arguments) IN
    r.normalized = NoneVal =>
        /\ calls = <<>>
        /\ pc \in {"call", "done"}
        /\ profile = NoneVal
        /\ context = NoneVal
        /\ candidates = <<>> /\ ranked_candidates = <<>> /\ errors = <<>>
        /\ pc = "done" => result = [kind |-> "error", lines |-> << <<"X ">> \o r.msg >>]

\* C2's case: a call whose arguments are an object with an invalid field
\* has returned.
C2_Witness ==
    /\ pc = "done"
    /\ arguments.t = "dict"
    /\ normalize_mining_plan_inputs(arguments).normalized = NoneVal
    /\ result.kind = "error"
    /\ calls = <<>>

\* C3: errors holds one tag per failed call, in call order, each naming the
\* phase and the target of its call, and none for a successful call; in the
\* returned context partial is true exactly when some call failed.
C3_PartialIffSomeCallFailed ==
    /\ pc # "raised" =>
        /\ Len(errors) = Cardinality(FailedCalls)
        /\ \A k \in 1..Len(errors) : errors[k] = TagOf(calls[NthFailed(k, 1)])
    /\ context # NoneVal =>
        /\ context.errors = errors
        /\ context.partial <=> FailedCalls # {}

\* C3's case: a returned context of a run in which a seed search, a summary
\* fetch and a page fetch failed and other calls succeeded.
C3_Witness ==
    /\ context # NoneVal
    /\ context.partial
    /\ \A a \in {"opensearch", "extracts", "parse"} :
        \E i \in FailedCalls : calls[i].action = a
    /\ \E i \in 1..Len(calls) : calls[i].outcome = "ok"
    /\ Len(context.errors) = Cardinality(FailedCalls)

\* C4: a plan rendered from a context with partial = true carries the
\* reduced-confidence line and not the normal one, and its last line is the
\* retry note; a plan rendered from a context with partial = false carries
\* the normal-confidence line and not the reduced one, and no line of it is
\* the retry note.
C4_ConfidenceAndRetryNoteFollowPartial ==
    result.kind = "plan" =>
        IF context.partial
        THEN /\ HasLine(result.lines, REDUCED_CONFIDENCE_LINE)
             /\ ~HasLine(result.lines, NORMAL_CONFIDENCE_LINE)
             /\ result.lines[Len(result.lines)] = RETRY_NOTE_LINE
        ELSE /\ HasLine(result.lines, NORMAL_CONFIDENCE_LINE)
             /\ ~HasLine(result.lines, REDUCED_CONFIDENCE_LINE)
             /\ ~HasLine(result.lines, RETRY_NOTE_LINE)

\* C4's case: a plan rendered from a partial context whose only failure is
\* a page that could not be parsed.
C4_Witness ==
    /\ result.kind = "plan"
    /\ context.partial
    /\ Cardinality(FailedCalls) = 1
    /\ \E i \in FailedCalls : calls[i].action = "parse" /\ calls[i].outcome = "bad"
    /\ result.lines[Len(result.lines)] = RETRY_NOTE_LINE

\* The seven seed searches have all returned an error result.
AllSearchesFailed ==
    /\ Len(calls) >= Len(MINING_SEED_QUERIES)
    /\ \A i \in 1..Len(MINING_SEED_QUERIES) :
        calls[i].action = "opensearch" /\ calls[i].outcome = "error"

\* C5: failed seed searches never stop the call (only a payload of another
\* shape does), and a call whose seed searches all failed returns a plan
\* with the Day 1 Plan header, the reduced-confidence line and, after the
\* Sources header, the line of the default Mining entry.
C5_AllSearchesFailedStillPlans ==
    /\ pc = "raised" => BadCalls # {}
    /\ (AllSearchesFailed /\ pc = "done") =>
        /\ result.kind = "plan"
        /\ HasLine(result.lines, <<"## ", "Day 1 Plan">>)
        /\ HasLine(result.lines, REDUCED_CONFIDENCE_LINE)
        /\ \E i, j \in 1..Len(result.lines) :
            /\ i < j
            /\ result.lines[i] = <<"## ", "Sources">>
            /\ result.lines[j] = <<"- ">> \o Str_Mining \o <<": ">>
                                    \o <<WIKI_BASE>> \o Str_Mining

\* C5's case: every seed search failed, the summary fetch of the default
\* candidate failed too, its page was fetched, and the plan was returned.
C5_Witness ==
    /\ AllSearchesFailed
    /\ pc = "done"
    /\ result.kind = "plan"
    /\ \E i, j \in 1..Len(calls) :
        /\ calls[i].action = "extracts" /\ calls[i].outcome = "error"
        /\ calls[j].action = "parse" /\ calls[j].outcome = "ok"

\* C6: the ranked list handed to the later phases is never empty; when the
\* seed searches produced no candidate it is one candidate titled Mining
\* with score 1, and otherwise it holds the produced candidates and no other.
C6_RankedNeverEmpty ==
    HasRanked =>
        /\ Len(ranked_candidates) >= 1
        /\ Len(candidates) = 0 =>
            /\ Len(ranked_candidates) = 1
            /\ ranked_candidates[1].title = Str_Mining
            /\ ranked_candidates[1].score = 1
        /\ Len(candidates) > 0 =>
            /\ Len(ranked_candidates) = Len(candidates)
            /\ \A i \in 1..Len(ranked_candidates) :
                \E j \in 1..Len(candidates) : ranked_candidates[i] = candidates[j]
        /\ context # NoneVal => context.ranked_candidates = ranked_candidates

\* C6's case: every seed search succeeded with no titles, and the later
\* phases ran on the synthesized candidate.
C6_Witness ==
    /\ pc = "done"
    /\ Len(candidates) = 0
    /\ Len(calls) >= Len(MINING_SEED_QUERIES)
    /\ \A i \in 1..Len(MINING_SEED_QUERIES) : calls[i].outcome = "ok"
    /\ context # NoneVal
    /\ context.ranked_candidates[1].title = Str_Mining

\* C7: the ranked list is ordered by score descending and, among candidates
\* of equal score, by lowercased title ascending.
C7_RankedScoreDescTitleAsc ==
    HasRanked =>
        \A i, j \in 1..Len(ranked_candidates) :
            i < j =>
                \/ ranked_candidates[i].score > ranked_candidates[j].score
                \/ /\ ranked_candidates[i].score = ranked_candidates[j].score
                   /\ StrLess(Lower(ranked_candidates[i].title),
                              Lower(ranked_candidates[j].title))

\* C8: the candidate set, and so the ranked list, holds at most one candidate
\* per case-insensitive title, after any sequence of observations.
C8_OneCandidatePerTitle ==
    /\ \A i, j \in 1..Len(candidates) :
        i # j => Lower(candidates[i].title) # Lower(candidates[j].title)
    /\ \A i, j \in 1..Len(ranked_candidates) :
        i # j => Lower(ranked_candidates[i].title) # Lower(ranked_candidates[j].title)
    /\ \A i \in 1..Len(observed) :
        \E j \in 1..Len(candidates) :
            Lower(candidates[j].title) = Lower(observed[i].title)

\* C8's case: two observations whose titles differ only in letter case have
\* been merged and ranked.
C8_Witness ==
    /\ HasRanked
    /\ \E i, j \in 1..Len(observed) :
        /\ observed[i].title # observed[j].title
        /\ Lower(observed[i].title) = Lower(observed[j].title)

\* C9: after any sequence of observations every candidate carries the highest
\* score among the observations of its title, and the description and url of
\* the first observation that reached that score: a later observation replaces
\* them only with a strictly greater score.
C9_MaxScoreFirstWins ==
    \A k \in 1..Len(candidates) :
        LET is == ObservedAs(Lower(candidates[k].title)) IN
        /\ is # {}
        /\ candidates[k].score = MaxScore(is)
        /\ candidates[k].description = observed[FirstAtMax(is)].description
        /\ candidates[k].url = observed[FirstAtMax(is)].url

\* C9's case: a title was observed again with an equal score and another
\* description or url, and a title was observed again with a greater score.
C9_Witness ==
    /\ \E i, j \in 1..Len(observed) :
        /\ i < j
        /\ Lower(observed[i].title) = Lower(observed[j].title)
        /\ observed[i].score = observed[j].score
        /\ observed[i].score = MaxScore(ObservedAs(Lower(observed[i].title)))
        /\ observed[i].url # observed[j].url
    /\ \E i, j \in 1..Len(observed) :
        /\ i < j
        /\ Lower(observed[i].title) = Lower(observed[j].title)
        /\ observed[i].score < observed[j].score

\* The ranked list the observations of feed give in the order of feed.
RankedInFeedOrder == RankCandidates(MergeAll(<<>>, feed))

\* C10 as stated: the same observations give the identical ranked list
\* (titles, descriptions, urls, scores, positions) in every arrival order.
C10_RankedIdenticalInAnyOrder ==
    pc = "ranked" => ranked_candidates = RankedInFeedOrder

\* The observations of feed that carry the highest score of their title.
FeedAtMax(key) ==
    {i \in DOMAIN feed :
        /\ Lower(feed[i].title) = key
        /\ \A j \in DOMAIN feed :
            Lower(feed[j].title) = key => feed[j].score <= feed[i].score}

\* C10 as amended: in every arrival order the ranked list has the same
\* case-insensitive titles and scores at the same positions; a candidate's
\* description and url are the same too when the observations that carry its
\* highest score agree on them, and its title is spelled the same when all
\* its observations spell it the same.
C10_RankedSameUpToTies ==
    pc = "ranked" =>
        /\ Len(ranked_candidates) = Len(RankedInFeedOrder)
        /\ \A k \in 1..Len(ranked_candidates) :
            LET c == ranked_candidates[k]
                r == RankedInFeedOrder[k]
                key == Lower(r.title)
            IN /\ Lower(c.title) = key
               /\ c.score = r.score
               /\ (\A i, j \in FeedAtMax(key) :
                        feed[i].description = feed[j].description
                        /\ feed[i].url = feed[j].url)
                    => (c.description = r.description /\ c.url = r.url)
               /\ (\A i, j \in DOMAIN feed :
                        Lower(feed[i].title) = key /\ Lower(feed[j].title) = key
                        => feed[i].title = feed[j].title)
                    => c.title = r.title

\* C10's case: observations were delivered in another order than feed's,
\* among them two of one title with different scores and two candidates of
\* equal score.
C10_Witness ==
    /\ pc = "ranked"
    /\ observed # feed
    /\ \E i, j \in DOMAIN feed :
        /\ Lower(feed[i].title) = Lower(feed[j].title)
        /\ feed[i].score # feed[j].score
    /\ \E i, j \in 1..Len(ranked_candidates) :
        /\ i # j
        /\ ranked_candidates[i].score = ranked_candidates[j].score

\* The positions in calls of the calls of one kind.
CallsOf(action) == {i \in 1..Len(calls) : calls[i].action = action}

\* C11: every extract call comes after all seven seed searches, every page
\* call after the extract calls of all of ranked_candidates[:8], the section
\* citations exist only once the call has returned, a plan exists only with
\* the gathered context, and no wiki call follows the return.
C11_PhasesRunInSequence ==
    /\ [](/\ \A i \in CallsOf("extracts") :
                {j \in CallsOf("opensearch") : j < i} = 1..7
          /\ \A i \in CallsOf("parse") :
                /\ \A j \in CallsOf("opensearch") \cup CallsOf("extracts") : j < i
                /\ Cardinality(CallsOf("extracts")) =
                        IF Len(ranked_candidates) < 8 THEN Len(ranked_candidates) ELSE 8
          /\ CallsOf("opensearch") \cup CallsOf("extracts") \cup CallsOf("parse")
                = 1..Len(calls)
          /\ section_citations # EmptyDict => (pc = "done" /\ context # NoneVal)
          /\ result.kind = "plan" =>
                (context # NoneVal /\ context.section_citations = section_citations))
    /\ [][pc \notin {"done", "raised"}]_vars

\* C11's case: a returned plan of a run with seven searches, three extract
\* calls and at least two page calls.
C11_Witness ==
    /\ pc = "done"
    /\ result.kind = "plan"
    /\ Cardinality(CallsOf("opensearch")) = 7
    /\ Cardinality(CallsOf("extracts")) = 3
    /\ Cardinality(CallsOf("parse")) >= 2

\* The titles of the first n ranked candidates.
TopTitles(n) ==
    {ranked_candidates[k].title :
        k \in 1..(IF Len(ranked_candidates) < n THEN Len(ranked_candidates) ELSE n)}

\* C12: no call is repeated.  The k-th call, up to the seventh, searches the
\* k-th seed phrase, failed or not; the extract calls ask for pairwise
\* different titles of the top 8 ranked candidates, the page calls for
\* pairwise different titles of the top 3; a run issues at most 18 calls.
\* Every step after the validation issues exactly one new call and no step
\* follows the return, so a run takes at most 19 steps and ends.
C12_NoRetryAtMost18Calls ==
    /\ [](/\ \A i \in CallsOf("opensearch") :
                i <= 7 /\ calls[i].target = MINING_SEED_QUERIES[i]
          /\ pc \in {"summary", "page", "done"} => CallsOf("opensearch") = 1..7
          /\ \A i \in CallsOf("extracts") :
                /\ calls[i].target \in TopTitles(8)
                /\ \A j \in CallsOf("extracts") : calls[j].target = calls[i].target => j = i
          /\ \A i \in CallsOf("parse") :
                /\ calls[i].target \in TopTitles(3)
                /\ \A j \in CallsOf("parse") : calls[j].target = calls[i].target => j = i
          /\ Len(calls) <= 18)
    /\ [][/\ pc \notin {"done", "raised"}
          /\ IF pc = "call" THEN calls' = calls
             ELSE Len(calls') = Len(calls) + 1
                  /\ SubSeq(calls', 1, Len(calls)) = calls]_vars

\* C12's case: a returned run of 18 calls, one of them failed, over more
\* than eight ranked candidates.
C12_Witness ==
    /\ pc = "done"
    /\ Len(calls) = 18
    /\ Len(ranked_candidates) > 8
    /\ FailedCalls # {}

\* A page call was issued for this title.
PageFetched(title) == \E i \in CallsOf("parse") : calls[i].target = title

\* C13: when the call has returned, a page was fetched for a top-3 candidate
\* exactly when it has no stored summary or a stored summary of fewer than
\* 180 characters, so in particular when its summary fetch failed; at all
\* times every stored snippet has at most 600 characters and is stored under
\* the title of a top-3 candidate.
C13_PageFetchedIffSummaryThin ==
    /\ pc = "done" =>
        \A title \in TopTitles(3) :
            /\ PageFetched(title) <=>
                (\/ title \notin DOMAIN summaries
                 \/ TextLen(summaries[title]) < 180)
            /\ (\E i \in CallsOf("extracts") :
                    calls[i].target = title /\ calls[i].outcome = "error")
                => PageFetched(title)
    /\ \A title \in DOMAIN page_snippets :
        /\ title \in TopTitles(3)
        /\ TextLen(page_snippets[title]) <= 600
    /\ context # NoneVal =>
        (context.page_snippets = page_snippets /\ context.summaries = summaries)

\* C13's case: a returned run over more than three candidates in which a
\* top-3 candidate with a summary of exactly 180 characters got no page, one
\* with a shorter summary got a page, and a snippet was cut to 600 characters.
C13_Witness ==
    /\ pc = "done"
    /\ Len(ranked_candidates) > 3
    /\ \E a, b \in TopTitles(3) :
        /\ a \in DOMAIN summaries /\ TextLen(summaries[a]) = 180 /\ ~PageFetched(a)
        /\ b \in DOMAIN summaries /\ TextLen(summaries[b]) < 180 /\ PageFetched(b)
        /\ b \in DOMAIN page_snippets /\ TextLen(page_snippets[b]) = 600

\* The ranked candidate at position k holds one of the keywords in its
\* lowercased title, space, description.
CandidateMatches(k, keywords) ==
    \E w \in 1..Len(keywords) :
        Contains(keywords[w],
                 Lower(ranked_candidates[k].title \o <<" ">>
                       \o ranked_candidates[k].description))

\* C14: in the returned context each of the eight cited sections has the
\* url of the first ranked candidate that matches one of its keywords, or
\* the url of the top-ranked candidate when none matches; no citation is
\* empty.
C14_CitationIsFirstMatchOrTop ==
    context # NoneVal =>
        /\ DOMAIN context.section_citations =
                {NINE_SECTIONS[n] : n \in 1..8}
        /\ \A n \in 1..Len(SECTION_KEYWORDS) :
            LET keywords == SECTION_KEYWORDS[n].keywords
                cited == context.section_citations[SECTION_KEYWORDS[n].section]
                matching == {k \in 1..Len(ranked_candidates) :
                                CandidateMatches(k, keywords)}
            IN /\ Len(cited) > 0
               /\ IF matching = {}
                  THEN cited = ranked_candidates[1].url
                  ELSE \E k \in matching :
                        /\ \A j \in matching : k <= j
                        /\ cited = ranked_candidates[k].url

\* C14's case: a returned context in which the top-ranked candidate matches
\* no keyword of some section, a lower-ranked candidate does, and the
\* section cites that candidate's url.
C14_Witness ==
    /\ context # NoneVal
    /\ \E n \in 1..Len(SECTION_KEYWORDS) :
        /\ ~CandidateMatches(1, SECTION_KEYWORDS[n].keywords)
        /\ \E k \in 2..Len(ranked_candidates) :
            CandidateMatches(k, SECTION_KEYWORDS[n].keywords)
        /\ context.section_citations[SECTION_KEYWORDS[n].section]
                # ranked_candidates[1].url

\* The lines of the plan after the Sources header, without the blank line
\* and the retry note that may end the plan.
SourceEntries ==
    LET lines == result.lines
        header == CHOOSE i \in 1..Len(lines) : lines[i] = <<"## ", "Sources">>
        last == IF lines[Len(lines)] = RETRY_NOTE_LINE THEN Len(lines) - 2 ELSE Len(lines)
    IN SubSeq(lines, header + 1, last)

\* The positions among the first 10 ranked candidates whose url is not empty
\* and not the url of an earlier candidate.
ListedPositions ==
    {k \in 1..(IF Len(ranked_candidates) < 10 THEN Len(ranked_candidates) ELSE 10) :
        /\ Len(ranked_candidates[k].url) > 0
        /\ \A j \in 1..(k - 1) : ranked_candidates[j].url # ranked_candidates[k].url}

DEFAULT_MINING_ENTRY ==
    << <<"- Mining: ", "https://wiki.eveuniversity.org/wiki/", "M","i","n","i","n","g">> >>

\* C17: the entries of the Sources section of a returned plan are the
\* title/url lines of the first 10 ranked candidates in rank order, less
\* every candidate whose url is empty or listed before it: at least one
\* entry, at most 10.  For a context without ranked candidates, or with
\* only candidates without url, the renderer lists the one default Mining
\* entry.
C17_SourcesFirstTenDeduplicated ==
    /\ result.kind = "plan" =>
        /\ Len(SourceEntries) = Cardinality(ListedPositions)
        /\ \A k \in ListedPositions :
            SourceEntries[Cardinality({j \in ListedPositions : j <= k})]
                = <<"- ">> \o ranked_candidates[k].title \o <<": ">>
                    \o ranked_candidates[k].url
        /\ Len(SourceEntries) >= 1
        /\ Len(SourceEntries) <= 10
    /\ SourceLines([ranked_candidates |-> <<>>]) = DEFAULT_MINING_ENTRY
    /\ SourceLines([ranked_candidates |->
            << [title |-> WikiStr.Ore, url |-> <<>>], [title |-> WikiStr.Gas, url |-> <<>>] >>])
        = DEFAULT_MINING_ENTRY

\* C17's case: a returned plan over more than ten ranked candidates, two of
\* the first ten with the same url, and so nine entries.
C17_Witness ==
    /\ result.kind = "plan"
    /\ Len(ranked_candidates) > 10
    /\ \E j, k \in 1..10 : j < k /\ ranked_candidates[j].url = ranked_candidates[k].url
    /\ Len(SourceEntries) = 9

SHIP_LOSS_SENTENCE ==
    "You reported a ship loss. Switch to a safer high-sec loop for the next 2 sessions."

LOW_ISK_SENTENCE ==
    "You reported low ISK pressure. Run a low-capital recovery loop before upgrades."

CONFUSION_SENTENCE ==
    "You reported confusion/stall. Use a simplified 3-task session to regain momentum."

GENERIC_SENTENCE ==
    "If progress stalls, fall back to a short high-sec routine and reassess after one session."

\* The lowercased recent_outcome of the profile holds a keyword of the list.
OutcomeMentions(tokens) ==
    \E i \in 1..Len(tokens) : Contains(tokens[i], Lower(profile.recent_outcome.s))

\* The position of a section's header line in the plan.
HeaderAt(section_name) ==
    CHOOSE i \in 1..Len(result.lines) : result.lines[i] = <<"## ", section_name>>

\* C15: a rendered plan holds exactly one of the four fallback sentences,
\* on the line after the If Things Go Wrong header: the ship-loss sentence
\* when a loss keyword occurs in the lowercased recent_outcome, else the
\* low-ISK sentence when a low-ISK keyword occurs, else the confusion
\* sentence when a confusion keyword occurs, else the generic one.  With
\* starting_isk 0 and a loss keyword the plan holds the low-capital shopping
\* line and the ship-loss sentence.
C15_OneFallbackSentenceByPriority ==
    result.kind = "plan" =>
        LET expected ==
                IF OutcomeMentions(LOSS_TOKENS) THEN SHIP_LOSS_SENTENCE
                ELSE IF OutcomeMentions(LOW_ISK_TOKENS) THEN LOW_ISK_SENTENCE
                ELSE IF OutcomeMentions(CONFUSION_TOKENS) THEN CONFUSION_SENTENCE
                ELSE GENERIC_SENTENCE
            rendered == {i \in 1..Len(result.lines) :
                            \E sentence \in {SHIP_LOSS_SENTENCE, LOW_ISK_SENTENCE,
                                             CONFUSION_SENTENCE, GENERIC_SENTENCE} :
                                result.lines[i] = <<"- ", sentence>>}
        IN /\ rendered = {HeaderAt("If Things Go Wrong") + 1}
           /\ result.lines[HeaderAt("If Things Go Wrong") + 1] = <<"- ", expected>>
           /\ (profile.starting_isk = IntVal(0) /\ OutcomeMentions(LOSS_TOKENS)) =>
                /\ HasLine(result.lines, <<"- ", "Start with low-capital purchases only.">>)
                /\ HasLine(result.lines, <<"- ", SHIP_LOSS_SENTENCE>>)

\* C15's case: a plan for a profile with starting_isk 0 whose recent_outcome
\* holds a loss keyword in capitals, a low-ISK keyword and a confusion
\* keyword.
C15_Witness ==
    /\ result.kind = "plan"
    /\ profile.starting_isk = IntVal(0)
    /\ Contains(<<"G","A","N","K","E","D">>, profile.recent_outcome.s)
    /\ OutcomeMentions(LOSS_TOKENS)
    /\ OutcomeMentions(LOW_ISK_TOKENS)
    /\ OutcomeMentions(CONFUSION_TOKENS)
    /\ HasLine(result.lines, <<"- ", SHIP_LOSS_SENTENCE>>)

\* The lines of the check-in section between its header and its source line.
CheckinItems ==
    LET from == HeaderAt("Next Session Check-in Questions") + 1
        source == CHOOSE i \in from..Len(result.lines) :
                    /\ Len(result.lines[i]) > 0 /\ result.lines[i][1] = "Source: "
                    /\ \A j \in from..(i - 1) :
                        Len(result.lines[j]) = 0 \/ result.lines[j][1] # "Source: "
    IN SubSeq(result.lines, from, source - 1)

FOUR_CHECKIN_ITEMS ==
    << <<"1. Did you complete a safe undock -> mine -> dock cycle?">>,
       <<"2. What blocked you most: travel, fitting, safety pressure, or income?">>,
       <<"3. Do you currently have replacement ISK for your active ship?">>,
       <<"4. Which single change should the next plan optimize first?">> >>

C18_FetchReturnsPayloadOrDescriptor ==
    pc = "returned" =>
        /\ attempts = 1
        /\ response.kind \in {"payload", "error"}
        /\ DOMAIN response \in {{"kind", "data"}, {"kind", "info"}}
        /\ response.kind = "payload" <=>
            /\ upstream.exception = "none"
            /\ upstream.status \in 200..299
            /\ upstream.body # "not_json"
        /\ response.kind = "payload" => response.data = upstream.body
        /\ upstream.exception \in {"ConnectTimeout", "ReadTimeout", "WriteTimeout", "PoolTimeout"}
            => response = [kind |-> "error", info |-> "Request timed out. Wiki may be slow."]
        /\ (upstream.exception = "none" /\ upstream.status \notin 200..299)
            => response = [kind |-> "error",
                           info |-> "Wiki API returned an error. Please try again."]
        /\ (\/ upstream.exception \in {"ConnectError", "ReadError", "RemoteProtocolError"}
            \/ /\ upstream.exception = "none"
               /\ upstream.status \in 200..299
               /\ upstream.body = "not_json")
            => response = [kind |-> "error",
                           info |-> "Request failed. Please try again later."]

\* C18's case: the call returned after a read timeout.
C18_Witness ==
    /\ pc = "returned"
    /\ upstream.exception = "ReadTimeout"
    /\ response.kind = "error"
    /\ attempts = 1

\* C19: a response that is no error descriptor and has not the expected
\* shape is tagged and skipped like an upstream error: no exception leaves
\* the call, errors holds one tag for every failed or malformed call, and
\* nothing is stored for the title of such a call.
C19_MalformedResponseTaggedAndSkipped ==
    /\ pc # "raised"
    /\ result.kind # "exception"
    /\ Len(errors) = Cardinality(FailedCalls)
    /\ \A i \in BadCalls :
        /\ calls[i].action = "extracts" => calls[i].target \notin DOMAIN summaries
        /\ calls[i].action = "parse" => calls[i].target \notin DOMAIN page_snippets

EIGHT_FIELDS ==
    <<"hours_per_session", "sessions_per_week", "starting_isk", "experience_level",
      "risk_preference", "current_assets", "recent_outcome", "questions">>

\* How the value of the k-th field, defaults applied, violates its rule:
\* "type", "range", "enum", "long", "nul", or "none".
ViolationOf(k) ==
    LET value == UpdateDefaults(arguments.d)[EIGHT_FIELDS[k]] IN
    CASE k = 1 ->
            IF value.t \notin {"int", "float"} THEN "type"
            ELSE IF NumLess(value, FloatVal(50)) \/ NumLess(FloatVal(800), value)
            THEN "range" ELSE "none"
      [] k = 2 ->
            IF value.t # "int" THEN "type"
            ELSE IF NumLess(value, IntVal(1)) \/ NumLess(IntVal(14), value)
            THEN "range" ELSE "none"
      [] k = 3 ->
            IF value.t # "int" THEN "type"
            ELSE IF NumLess(value, IntVal(0)) \/ NumLess(BigIntVal(10, 0), value)
            THEN "range" ELSE "none"
      [] k = 4 ->
            IF value.t # "str" THEN "type"
            ELSE IF value.s # <<"b","r","a","n","d","_","n","e","w">> THEN "enum" ELSE "none"
      [] k = 5 ->
            IF value.t # "str" THEN "type"
            ELSE IF value.s # <<"c","o","n","s","e","r","v","a","t","i","v","e">>
            THEN "enum" ELSE "none"
      [] OTHER ->
            IF value.t # "str" THEN "type"
            ELSE IF Len(value.s) > 1200 THEN "long"
            ELSE IF \E i \in 1..Len(value.s) : value.s[i] = Nul THEN "nul"
            ELSE "none"

\* The first of the eight fields, in the fixed order, that violates its rule.
FirstViolated ==
    CHOOSE k \in 1..8 :
        ViolationOf(k) # "none" /\ \A j \in 1..(k - 1) : ViolationOf(j) = "none"

MUST_BE_PHRASES ==
    {" must be an integer between ", " must be a number between ", " must be between ",
     " must be one of: ", " must be a string"}

\* The call returned a validation error for a field of the profile.
FieldErrorReturned ==
    pc = "done" /\ result.kind = "error" /\ arguments.t = "dict"

\* C20 as stated: every validation error returned for a profile field names
\* the first violated field, in the fixed order, and reads "<field> must be
\* <constraint>", whatever the kind of violation.
C20_EveryFieldErrorReadsMustBe ==
    FieldErrorReturned =>
        LET msg == result.lines[1] IN
        /\ msg[2] = EIGHT_FIELDS[FirstViolated]
        /\ msg[3] \in MUST_BE_PHRASES

\* C20, amended: every validation error returned for a profile field names
\* the first violated field, in the fixed order, and only that one.  It reads
\* "<field> must be <constraint>" for a value of the wrong type, a number out
\* of range and a value outside the enum; "<field> exceeds maximum length of
\* 1200" for an over-long text; "<field> contains invalid characters" for a
\* text with a NUL.
C20_FieldErrorNamesFirstViolation ==
    FieldErrorReturned =>
        LET msg == result.lines[1]
            kind == ViolationOf(FirstViolated)
        IN /\ msg[2] = EIGHT_FIELDS[FirstViolated]
           /\ \A k \in 1..8 : \A i \in 3..Len(msg) : k # FirstViolated => msg[i] # EIGHT_FIELDS[k]
           /\ kind \in {"type", "range", "enum"} => msg[3] \in MUST_BE_PHRASES
           /\ kind = "long" =>
                SubSeq(msg, 3, Len(msg)) = <<" exceeds maximum length of ", "1", "2", "0", "0">>
           /\ kind = "nul" =>
                SubSeq(msg, 3, Len(msg)) = <<" contains invalid characters">>

\* C20's case: a returned error for arguments with three violated fields,
\* the first of them a number out of range.
C20_Witness ==
    /\ FieldErrorReturned
    /\ Cardinality({k \in 1..8 : ViolationOf(k) # "none"}) = 3
    /\ ViolationOf(FirstViolated) = "range"
    /\ result.lines[1][3] = " must be between "

(***************************************************************************)
(* C21: the bounds of hours_per_session and sessions_per_week.             *)
(***************************************************************************)
\* A non-boolean number in the closed range 0.5 to 8.0.
HoursInRange(v) ==
    \/ v.t = "int" /\ v.hi = 0 /\ 1 <= v.lo /\ v.lo <= 8
    \/ v.t = "float" /\ ~IsNaN(v) /\ 50 <= v.h /\ v.h <= 800

HOURS_RANGE_ERROR ==
    <<"X ", "hours_per_session", " must be between ", "0", ".", "5", " and ", "8", ".", "0">>

SESSIONS_RANGE_ERROR ==
    <<"X ", "sessions_per_week", " must be between ", "1", " and ", "1", "4">>

\* Validation is over and the error, if any, is not about hours_per_session.
HoursAccepted ==
    /\ pc # "normalize"
    /\ result.kind = "error" => result.lines[1][2] # "hours_per_session"

\* C21: hours_per_session is accepted exactly when it is a non-boolean number
\* in the closed range 0.5 to 8.0, a number outside it is rejected with
\* "hours_per_session must be between 0.5 and 8.0", and an integer
\* sessions_per_week outside 1..14 is rejected with "sessions_per_week must
\* be between 1 and 14".
C21_HoursAcceptedExactlyInRange ==
    pc # "normalize" =>
        LET hours == arguments.d.hours_per_session
            sessions == arguments.d.sessions_per_week
        IN /\ HoursAccepted <=> HoursInRange(hours)
           /\ hours.t \in {"int", "float"} /\ ~HoursInRange(hours)
                 => result.lines = <<HOURS_RANGE_ERROR>>
           /\ HoursAccepted /\ sessions.t = "int"
                 /\ (sessions.hi # 0 \/ sessions.lo < 1 \/ sessions.lo > 14)
                 => result.lines = <<SESSIONS_RANGE_ERROR>>

(***************************************************************************)
(* C22 - C25: the guards of the HTTP routes.                               *)
(***************************************************************************)
GUARDED_PATHS == {"/sse", "/messages/"}

\* The requests of the last request's client that had been let through
\* before it and are less than one window old when it arrives.
PriorInWindow ==
    LET times == admitted[reply.client_id]
        prior == IF reply.handed THEN Len(times) - 1 ELSE Len(times)
    IN Cardinality({j \in 1..prior : reply.at - times[j] < config.RATE_LIMIT_WINDOW})

\* C22: for each client, at most RATE_LIMIT_REQUESTS requests to /sse and
\* /messages/ are let through within any RATE_LIMIT_WINDOW seconds (each
\* request let through has fewer than that many before it that are less than
\* a window older); a request of a client with that many in the current
\* window is answered 429 "Rate limit exceeded. Please try again later." and
\* not handed on; and a request let through counts whatever the transport
\* answers it (400, 404).
C22_AtMostLimitPerWindow ==
    /\ \A c \in DOMAIN admitted : \A i \in 1..Len(admitted[c]) :
          Cardinality({j \in 1..i :
                          admitted[c][i] - admitted[c][j] < config.RATE_LIMIT_WINDOW})
             <= config.RATE_LIMIT_REQUESTS
    /\ reply.path \in GUARDED_PATHS =>
          /\ reply.status # 401 /\ PriorInWindow >= config.RATE_LIMIT_REQUESTS
                => /\ reply.status = 429
                   /\ reply.body = [error |-> "Rate limit exceeded. Please try again later."]
                   /\ ~reply.handed
          /\ reply.handed =>
                /\ admitted[reply.client_id] # <<>>
                /\ admitted[reply.client_id][Len(admitted[reply.client_id])] = reply.at
                /\ reply.at \in {rate_limit_store[reply.client_id][k] :
                                    k \in 1..Len(rate_limit_store[reply.client_id])}

\* C22's case: a limit of two, both used up within the window, one of them
\* by a POST the transport answered 404 or 400 a moment ago.
C22_Witness ==
    /\ config.RATE_LIMIT_REQUESTS = 2
    /\ reply.path = "/messages/"
    /\ reply.handed
    /\ reply.status \in {400, 404}
    /\ PriorInWindow = 1
    /\ Len(rate_limit_store[reply.client_id]) = 2

\* C23: with an auth token configured, a request to /sse or /messages/ whose
\* Authorization header does not carry the token is answered 401
\* "Unauthorized" and is not handed to the transport.
C23_NoTokenNoTransport ==
    config.AUTH_TOKEN # <<>> /\ reply.path \in GUARDED_PATHS /\ ~reply.presented =>
        /\ reply.status = 401
        /\ reply.body = [error |-> "Unauthorized"]
        /\ ~reply.handed

\* C23's case: a POST to /messages/ without the token, turned away.
C23_Witness ==
    /\ config.AUTH_TOKEN # <<>>
    /\ reply.path = "/messages/"
    /\ ~reply.presented
    /\ reply.status = 401

\* C24: GET /health is answered 200 with status "healthy" in every state,
\* and leaves the rate-limit store as it was.
C24_HealthAlways200 ==
    /\ [](reply.path = "/health" =>
             reply.status = 200 /\ reply.body.status = "healthy")
    /\ [][reply'.seq # reply.seq /\ reply'.path = "/health" =>
             rate_limit_store' = rate_limit_store /\ admitted' = admitted]_vars

\* C24's case: a health request without the token, with a token configured
\* and the limit at 0.
C24_Witness ==
    /\ reply.path = "/health"
    /\ config.AUTH_TOKEN # <<>>
    /\ ~reply.presented
    /\ config.RATE_LIMIT_REQUESTS = 0
    /\ reply.status = 200

\* C25: a POST to /messages/ that passed the guards, for a session that has
\* not been initialized, is answered 409 with an error mentioning "not
\* initialized" when its method is not initialize, and is not answered 409
\* when it is.
C25_UninitializedSessionAnswered409 ==
    reply.path = "/messages/" /\ reply.status \notin {401, 429} /\ ~reply.ready =>
        IF reply.method # "initialize"
        THEN reply.status = 409
        ELSE reply.status # 409

(***************************************************************************)
(* C27, C28: the search tool.                                              *)
(***************************************************************************)
\* C27: the limit of every opensearch request search_eve_wiki sends is an
\* integer within 1..50, and 10 when the caller gave none.
C27_LimitSentWithinOneToFifty ==
    pc \in {"fetch", "returned", "done", "raised"} /\ params # NoneVal =>
        /\ params.limit.t = "int"
        /\ ~NumLess(params.limit, IntVal(1))
        /\ ~NumLess(IntVal(50), params.limit)
        /\ "limit" \notin DOMAIN arguments => params.limit = IntVal(10)

\* C28: for a valid query and a reply [query, titles, descriptions, urls],
\* the tool returns the listing when titles is non-empty and the "No
\* results found" message when it is empty, takes the error branch only
\* when fetch_wiki returned an error descriptor, and never raises.
C28_SearchNeverRaises ==
    pc \in {"done", "raised"} /\ params # NoneVal /\ response # NoneVal =>
        /\ result.kind # "raised"
        /\ result.branch = "error" <=> response.kind = "error"
        /\ response.kind = "payload" =>
              result.branch = IF response.data[2].items = <<>>
                              THEN "no results" ELSE "listing"

(***************************************************************************)
(* C26: two calls on one event loop.  What a call returns when it runs by  *)
(* itself is a function of its arguments and of the answers it got, which  *)
(* a frame records in calls and observed.                                  *)
(***************************************************************************)
\* The failure tags of a call's own failed fetches, in call order.
SoloErrors(f) ==
    LET Failed(call) == call.outcome # "ok"
        failed == SelectSeq(f.calls, Failed)
    IN [k \in 1..Len(failed) |-> TagOf(failed[k])]

\* The ranking of the candidates of a call's own search answers.
SoloRanked(f) == RankCandidates(MergeAll(<<>>, f.observed))

\* The targets of a call's own answered fetches of one kind.
Answered(f, action) ==
    {f.calls[i].target : i \in {j \in 1..Len(f.calls) :
                                   f.calls[j].action = action /\ f.calls[j].outcome = "ok"}}

SoloSummaries(f) ==
    LET summary(title) == extract_summary_from_query_response(TableExtract(title))
    IN [title \in {t \in Answered(f, "extracts") : TextLen(summary(t)) > 0} |->
           summary(title)]

SoloSnippets(f) ==
    [title \in Answered(f, "parse") |->
        SliceText(StripText(TablePage(title)), SNIPPET_LENGTH)]

SoloContext(f) ==
    [ranked_candidates |-> SoloRanked(f),
     summaries |-> SoloSummaries(f),
     page_snippets |-> SoloSnippets(f),
     errors |-> SoloErrors(f),
     partial |-> SoloErrors(f) # <<>>,
     section_citations |-> SectionCitations(SoloRanked(f))]

\* A call's frame holds what the call alone would hold after the same
\* answers.
AsAlone(f) ==
    /\ f.pc # "raised" => f.errors = SoloErrors(f)
    /\ f.candidates = MergeAll(<<>>, f.observed)
    /\ f.pc \in {"summary", "page"} => f.ranked_candidates = SoloRanked(f)
    /\ f.pc # "raised" =>
          /\ f.summaries = SoloSummaries(f)
          /\ f.page_snippets = SoloSnippets(f)
    /\ f.wiki = "empty" => f.candidates = <<>>
    /\ f.result.kind = "plan" =>
          /\ f.context = SoloContext(f)
          /\ f.result.lines =
                build_mining_plan_markdown(
                    normalize_mining_plan_inputs(f.arguments).normalized,
                    SoloContext(f))

====
